---- MODULE Spec2Model ----
(***************************************************************************)
(* Ticket reservation system: the booking service's inventory controller.  *)
(*                                                                         *)
(* The model follows src/booking-service/src/app.js.  The relational store *)
(* is the committed content of the events, bookings and payments tables    *)
(* plus the exclusive row locks of the open transactions; a transaction    *)
(* keeps its uncommitted writes in a private buffer that COMMIT applies    *)
(* and ROLLBACK discards.  The lock service is the Redis key space.  Each  *)
(* request slot runs one HTTP handler at a time.  A handler step ends      *)
(* where the handler may have to wait for a lock or where time may pass    *)
(* between two of its reads; the statements in between, which touch only   *)
(* rows the transaction has locked, are part of the same step.             *)
(*                                                                         *)
(* Time is counted in minutes.  The clock advances by a little more than   *)
(* one reservation window at a time; a Redis TTL (30 s) is shorter than    *)
(* that, so the expiry of a lock key is a step that may happen between any *)
(* two others.                                                             *)
(***************************************************************************)
EXTENDS Integers, Sequences, FiniteSets, TLC

\* ---- bounds ---------------------------------------------------------------
MaxBookings == 2        \* rows the bookings table may grow to
MaxTicks == 2           \* clock advances in one behaviour
InitTickets == 2        \* total_tickets of the event at start
MaxDeliveries == 1      \* payment messages being processed at a time

\* ---- program constants ----------------------------------------------------
MaxTicketCount == 10        \* ticketCount > 10 is rejected
ReservationMinutes == 15    \* DATE_ADD(NOW(), INTERVAL 15 MINUTE)
CancelCutoffHours == 24     \* hoursUntilEvent < 24
MinutesPerHour == 60        \* (eventDate - now) / (1000 * 60 * 60)
MaxRetries == 3             \* if (retryCount < 3)
BackoffSeconds == 5         \* 5000 * (retryCount + 1) milliseconds

\* ---- request inputs -------------------------------------------------------
Procs == {1, 2}                 \* request slots (handlers in flight)
Users == {1, 2}
EventIds == {1}                 \* rows of the events table
RequestEventIds == {1}
TicketCounts == {0, 1, 2, 11}
EventDates == {0, 1450}         \* already started; in 24 hours and 10 minutes
BookingIds == 1..MaxBookings
TickMinutes == ReservationMinutes + 1   \* one clock advance

UserSlot == 1                   \* the request slot of the clients' requests
WorkerSlot == 2                 \* the request slot of the payment service's calls
NoToken == 0
NoProc == 0
NoRow == [none |-> TRUE]

Deliveries == 1..MaxDeliveries  \* processPayment calls that may be in flight
NoMessage == [none |-> TRUE]
\* no processPayment call in this delivery
NoWork == [pc |-> "idle", msg |-> NoMessage, success |-> FALSE, delay |-> 0]

VARIABLES
  now,        \* NOW() / new Date(), in minutes
  events,     \* committed events table:   id -> row
  bookings,   \* committed bookings table: sequence of rows, id = index
  payments,   \* committed payments table: sequence of rows
  redis,      \* lock keys: lockKey -> owner token, NoToken when absent
  evLock,     \* exclusive row locks on events rows: id -> holder
  bkLock,     \* exclusive row locks on bookings rows: id -> holder
  proc,       \* request slot -> handler state
  mqUp,       \* rabbitChannel exists and is open
  published,  \* messages accepted by the queues
  returned,   \* history: booking id -> times its tickets went back to the pool
  queue,      \* payment_processing: the messages waiting for delivery
  work,       \* payment service: delivery -> state of its processPayment call
  results,    \* messages accepted by payment_results
  deadLetters \* history: messages dropped after the last retry

vars == <<now, events, bookings, payments, redis, evLock, bkLock, proc,
          mqUp, published, returned, queue, work, results, deadLetters>>

\* the variables of the payment service
wvars == <<queue, work, results, deadLetters>>

\* the variables of the booking service
bvars == <<now, events, bookings, payments, redis, evLock, bkLock, proc,
           mqUp, published, returned>>

\* ---- helpers --------------------------------------------------------------

\* `event_booking_lock:${eventId}`: one key per event id
lockKey(eventId) == eventId

\* an empty transaction write buffer
NoWrites ==
  [ins  |-> <<>>,                       \* INSERT INTO bookings
   st   |-> {},                         \* UPDATE bookings SET status
   paid |-> {},                         \* UPDATE bookings SET payment_status
   ev   |-> [e \in EventIds |-> 0],     \* UPDATE events SET available_tickets
   pay  |-> <<>>,                       \* INSERT INTO payments
   ret  |-> {}]                         \* history: bookings whose tickets return

Idle ==
  [op |-> "idle", pc |-> "idle", userId |-> 0, eventId |-> 0,
   ticketCount |-> 0, bookingId |-> 0, lockValue |-> NoToken,
   event |-> NoRow, booking |-> NoRow, expiredBookings |-> {},
   w |-> NoWrites, result |-> "none", count |-> 0, refundAmount |-> 0]

RECURSIVE SumTickets(_)
SumTickets(S) ==
  IF S = {} THEN 0
  ELSE LET r == CHOOSE x \in S : TRUE
       IN r.ticket_count + SumTickets(S \ {r})

\* the rows of a table as a set of records that carry their id
BookingRows == {[id |-> i, row |-> bookings[i]] : i \in DOMAIN bookings}

\* tickets of event e held by bookings that are pending or confirmed
HeldTickets(e) ==
  SumTickets({[id |-> r.id, ticket_count |-> r.row.ticket_count] :
     r \in {x \in BookingRows : x.row.event_id = e
                                /\ x.row.status \in {"pending", "confirmed"}}})

SetProc(p, r) == proc' = [proc EXCEPT ![p] = r]

\* ---- the store: commit and rollback --------------------------------------

NewStatus(w, i) ==
  IF \E u \in w.st : u.id = i
  THEN (CHOOSE u \in w.st : u.id = i).status
  ELSE bookings[i].status

\* faulty variant of CommitBookings: every UPDATE of a row also moves its
\* expires_at to NOW(), as a TIMESTAMP column with ON UPDATE would
CommitBookingsTouchExpiry(w) ==
  [i \in DOMAIN bookings |->
     [bookings[i] EXCEPT
        !.status = NewStatus(w, i),
        !.payment_status = IF i \in w.paid THEN "completed" ELSE @,
        !.expires_at = IF NewStatus(w, i) # bookings[i].status THEN now ELSE @]]
  \o w.ins

\* bookings table after the writes of buffer w are committed
CommitBookings(w) ==
  [i \in DOMAIN bookings |->
     [bookings[i] EXCEPT
        !.status = NewStatus(w, i),
        !.payment_status = IF i \in w.paid THEN "completed" ELSE @]]
  \o w.ins

\* events table after the writes of buffer w are committed
CommitEvents(w) ==
  [e \in EventIds |->
     [events[e] EXCEPT !.available_tickets = @ + w.ev[e]]]

ReleaseRowLocks(p) ==
  /\ evLock' = [e \in EventIds |-> IF evLock[e] = p THEN NoProc ELSE evLock[e]]
  /\ bkLock' = [b \in BookingIds |-> IF bkLock[b] = p THEN NoProc ELSE bkLock[b]]

\* faulty variant of commit: the writes are discarded
commitDiscarded(p, w) ==
  /\ UNCHANGED <<bookings, events, payments, returned>>
  /\ ReleaseRowLocks(p)

\* connection.commit() of a transaction whose writes are w
commit(p, w) ==
  /\ bookings' = CommitBookings(w)
  /\ events' = CommitEvents(w)
  /\ payments' = payments \o w.pay
  /\ returned' = [b \in BookingIds |->
                    IF b \in w.ret THEN returned[b] + 1 ELSE returned[b]]
  /\ ReleaseRowLocks(p)

\* connection.rollback()
rollback(p) ==
  /\ UNCHANGED <<bookings, events, payments, returned>>
  /\ ReleaseRowLocks(p)

\* ---- the lock service -----------------------------------------------------

\* faulty variant of SetReply: the NX option is ignored
SetReplyWithoutNX(key) == "OK"

\* the reply of SET key value PX ttl NX: OK only if the key does not exist
SetReply(key) == IF redis[key] = NoToken THEN "OK" ELSE "nil"

\* redis after SET key value PX ttl NX answered OK
SetNX(key, lockValue) == [redis EXCEPT ![key] = lockValue]

\* faulty variant of releaseLock: a plain DEL that does not compare the token
releaseLockAnyToken(key, lockValue) == [redis EXCEPT ![key] = NoToken]

\* redis after the compare-and-delete script of releaseLock ran
releaseLock(key, lockValue) ==
  IF redis[key] = lockValue
  THEN [redis EXCEPT ![key] = NoToken]
  ELSE redis

\* ---- initial state --------------------------------------------------------

Init ==
  /\ now = 0
  /\ events \in [EventIds ->
        [total_tickets : {InitTickets}, available_tickets : {InitTickets},
         price : {50}, status : {"active", "inactive"},
         event_date : EventDates]]
  /\ bookings = <<>>
  /\ payments = <<>>
  /\ redis = [k \in RequestEventIds |-> NoToken]
  /\ evLock = [e \in EventIds |-> NoProc]
  /\ bkLock = [b \in BookingIds |-> NoProc]
  /\ proc = [p \in Procs |-> Idle]
  /\ mqUp \in BOOLEAN
  /\ published = {}
  /\ returned = [b \in BookingIds |-> 0]
  /\ queue = {}
  /\ work = [d \in Deliveries |-> NoWork]
  /\ results = {}
  /\ deadLetters = {}

\* ---- handler bookkeeping --------------------------------------------------

\* the slot has no handler in flight
Free(p) == proc[p].pc \in {"idle", "done"}

\* the handler state once the handler has finished
Done(op, bookingId, result) ==
  [Idle EXCEPT !.op = op, !.pc = "done", !.bookingId = bookingId,
               !.result = result]

\* a transaction is open at these handler positions
TxOpen(p) ==
  proc[p].pc \in {"selectEvent", "insert", "selectBooking", "returnTickets",
                  "confirm", "selectExpired", "restore", "markExpired"}

\* rabbitChannel.sendToQueue(...) inside try/catch, behind if (rabbitChannel):
\* the messages are queued, or the channel is missing or the send throws
sendToQueue(msgs) ==
  /\ published' = IF mqUp THEN published \cup msgs ELSE published
  /\ UNCHANGED mqUp

\* ---- POST /api/bookings ---------------------------------------------------

\* request received: the two input checks before the try block
PostBookings(p) ==
  /\ Free(p)
  /\ \E userId \in Users, eventId \in RequestEventIds, ticketCount \in TicketCounts :
       SetProc(p,
         IF ticketCount = 0 \/ ticketCount <= 0 \/ ticketCount > MaxTicketCount
         THEN Done("Reserve", 0, "InvalidInput")
         ELSE [Idle EXCEPT !.op = "Reserve", !.pc = "acquire", !.userId = userId,
                 !.eventId = eventId, !.ticketCount = ticketCount])
  /\ UNCHANGED <<wvars, now, events, bookings, payments, redis, evLock, bkLock,
                 mqUp, published, returned>>

\* lockValue = await acquireLock(lockKey, 30): SET NX PX answered OK
AcquireLockOk(p) ==
  /\ proc[p].op = "Reserve" /\ proc[p].pc = "acquire"
  /\ SetReply(lockKey(proc[p].eventId)) = "OK"
  /\ redis' = SetNX(lockKey(proc[p].eventId), p)
  /\ SetProc(p, [proc[p] EXCEPT !.pc = "selectEvent", !.lockValue = p])
  /\ UNCHANGED <<wvars, now, events, bookings, payments, evLock, bkLock,
                 mqUp, published, returned>>

\* acquireLock returned null (the key exists, or the Redis call failed): 429
AcquireLockBusy(p) ==
  /\ proc[p].op = "Reserve" /\ proc[p].pc = "acquire"
  /\ SetProc(p, Done("Reserve", 0, "Busy"))
  /\ UNCHANGED <<wvars, now, events, bookings, payments, redis, evLock, bkLock,
                 mqUp, published, returned>>

\* the handler position once the response is sent inside the try block
Responded(p, result) ==
  [proc[p] EXCEPT !.pc = "finally", !.result = result, !.userId = 0,
                  !.ticketCount = 0, !.event = NoRow]

\* faulty variant of ReserveCheck: available_tickets is not compared
ReserveCheckNoStock(event, ticketCount) ==
  IF event.status # "active" THEN "NotFound"
  ELSE IF event.event_date <= now THEN "PastEvent"
  ELSE "ok"

\* the answer of the reserve handler to the event row it selected
ReserveCheck(event, ticketCount) ==
  IF event.status # "active" THEN "NotFound"
  ELSE IF event.event_date <= now THEN "PastEvent"
  ELSE IF event.available_tickets < ticketCount THEN "Insufficient"
  ELSE "ok"

\* a faulty variant of SelectEventForUpdate: the SELECT without FOR UPDATE,
\* which neither waits for the row lock nor takes it
SelectEventWithoutLock(p) ==
  /\ proc[p].op = "Reserve" /\ proc[p].pc = "selectEvent"
  /\ LET e == proc[p].eventId
         n == proc[p].ticketCount
     IN IF e \notin EventIds THEN SetProc(p, Responded(p, "NotFound"))
        ELSE IF ReserveCheck(events[e], n) # "ok"
             THEN SetProc(p, Responded(p, ReserveCheck(events[e], n)))
             ELSE SetProc(p, [proc[p] EXCEPT !.pc = "insert",
                                             !.event = events[e]])
  /\ UNCHANGED <<wvars, now, events, bookings, payments, redis, evLock, bkLock,
                 mqUp, published, returned>>

\* beginTransaction; SELECT ... FROM events WHERE id = ? AND status = "active"
\* FOR UPDATE; then the checks on the row that end in rollback and return
SelectEventForUpdate(p) ==
  /\ proc[p].op = "Reserve" /\ proc[p].pc = "selectEvent"
  /\ LET e == proc[p].eventId
         n == proc[p].ticketCount
         fail(r) == /\ SetProc(p, Responded(p, r))
                    /\ UNCHANGED <<evLock>>
     IN IF e \notin EventIds THEN fail("NotFound")
        ELSE /\ evLock[e] = NoProc
             /\ IF ReserveCheck(events[e], n) # "ok"
                THEN fail(ReserveCheck(events[e], n))
                ELSE /\ evLock' = [evLock EXCEPT ![e] = p]
                     /\ SetProc(p, [proc[p] EXCEPT !.pc = "insert",
                                                   !.event = events[e]])
  /\ UNCHANGED <<wvars, now, events, bookings, payments, redis, bkLock,
                 mqUp, published, returned>>

\* faulty variant of existingBookings: the user's bookings are not looked up
existingBookingsNotLookedUp(userId, eventId) == {}

\* the user's bookings for the event that are pending or confirmed
existingBookings(userId, eventId) ==
  {i \in DOMAIN bookings :
     /\ bookings[i].user_id = userId
     /\ bookings[i].event_id = eventId
     /\ bookings[i].status \in {"pending", "confirmed"}}

\* a faulty variant of NewBooking: total_amount is the price of one ticket
NewBookingUnitPrice(userId, eventId, ticketCount, price) ==
  [user_id |-> userId, event_id |-> eventId, ticket_count |-> ticketCount,
   total_amount |-> price, status |-> "pending",
   payment_status |-> "pending", expires_at |-> now + ReservationMinutes]

\* the row of INSERT INTO bookings
NewBooking(userId, eventId, ticketCount, price) ==
  [user_id |-> userId, event_id |-> eventId, ticket_count |-> ticketCount,
   total_amount |-> price * ticketCount, status |-> "pending",
   payment_status |-> "pending", expires_at |-> now + ReservationMinutes]

\* faulty variant of ReserveWrites: the INSERT without the UPDATE of the counter
ReserveWritesNoDecrement(userId, eventId, ticketCount, price) ==
  [NoWrites EXCEPT
     !.ins = <<NewBooking(userId, eventId, ticketCount, price)>>]

\* the writes of a reservation: the INSERT and the UPDATE of the counter
ReserveWrites(userId, eventId, ticketCount, price) ==
  [NoWrites EXCEPT
     !.ins = <<NewBooking(userId, eventId, ticketCount, price)>>,
     !.ev = [@ EXCEPT ![eventId] = 0 - ticketCount]]

\* the payload of a payment_processing message as POST /api/bookings sends
\* it: no headers, so no retryCount yet
PaymentMessage(bookingId, userId) ==
  [bookingId |-> bookingId, userId |-> userId, retryCount |-> 0]

\* the duplicate check; then INSERT INTO bookings, UPDATE events, commit,
\* the two queue messages and the 201 response
InsertBooking(p) ==
  /\ proc[p].op = "Reserve" /\ proc[p].pc = "insert"
  /\ LET e == proc[p].eventId
         b == Len(bookings) + 1
         q == [proc EXCEPT ![p].w =
                 ReserveWrites(proc[p].userId, e, proc[p].ticketCount,
                               proc[p].event.price)]
     IN IF existingBookings(proc[p].userId, e) # {}
        THEN /\ rollback(p)
             /\ SetProc(p, Responded(p, "DuplicateBooking"))
             /\ UNCHANGED <<mqUp, published, queue>>
        ELSE /\ Len(bookings) < MaxBookings
             /\ commit(p, q[p].w)
             /\ \/ /\ sendToQueue({<<"booking_notifications", "booking_created", b>>,
                                   <<"payment_processing", "payment", b>>})
                   /\ queue' = IF mqUp
                               THEN queue \cup {PaymentMessage(b, proc[p].userId)}
                               ELSE queue
                \/ /\ mqUp      \* the channel closes after the first send
                   /\ mqUp' = FALSE
                   /\ published' = published \cup
                        {<<"booking_notifications", "booking_created", b>>}
                   /\ UNCHANGED queue
             /\ SetProc(p, [Responded(p, "Created") EXCEPT !.bookingId = b])
  /\ UNCHANGED <<work, results, deadLetters, now, redis>>

\* finally: connection.release(); await releaseLock(lockKey, lockValue)
FinallyRelease(p) ==
  /\ proc[p].op = "Reserve" /\ proc[p].pc = "finally"
  /\ \/ redis' = releaseLock(lockKey(proc[p].eventId), proc[p].lockValue)
     \/ redis' = redis        \* the eval call failed: logged, nothing deleted
  /\ SetProc(p, Done("Reserve", proc[p].bookingId, proc[p].result))
  /\ UNCHANGED <<wvars, now, events, bookings, payments, evLock, bkLock,
                 mqUp, published, returned>>

\* ---- POST /api/bookings/:bookingId/cancel ---------------------------------

\* request received
CancelBooking(p) ==
  /\ Free(p)
  /\ \E bookingId \in BookingIds, userId \in Users :
       SetProc(p, [Idle EXCEPT !.op = "Cancel", !.pc = "selectBooking",
                     !.bookingId = bookingId, !.userId = userId])
  /\ UNCHANGED <<wvars, now, events, bookings, payments, redis, evLock, bkLock,
                 mqUp, published, returned>>

\* a faulty variant of LessThan24Hours: no cancellation is ever too late
LessThan24HoursNever(eventDate) ==
  FALSE

\* hoursUntilEvent < 24, with both sides in minutes
LessThan24Hours(eventDate) ==
  eventDate - now < CancelCutoffHours * MinutesPerHour

\* a faulty variant of CancelCheck: the SELECT without AND user_id = ?
CancelCheckAnyUser(booking, userId) ==
  IF booking.status = "cancelled" THEN "AlreadyCancelled"
  ELSE IF booking.status = "confirmed"
          /\ LessThan24Hours(events[booking.event_id].event_date)
       THEN "TooLate"
  ELSE "ok"

\* the answer of the cancel handler to the row it selected, before any write
CancelCheck(booking, userId) ==
  IF booking.user_id # userId THEN "NotFound"
  ELSE IF booking.status = "cancelled" THEN "AlreadyCancelled"
  ELSE IF booking.status = "confirmed"
          /\ LessThan24Hours(events[booking.event_id].event_date)
       THEN "TooLate"
  ELSE "ok"

\* beginTransaction; SELECT * FROM bookings WHERE id = ? AND user_id = ?
\* FOR UPDATE; the status checks; UPDATE bookings SET status = "cancelled"
SelectBookingForCancel(p) ==
  /\ proc[p].op = "Cancel" /\ proc[p].pc = "selectBooking"
  /\ LET b == proc[p].bookingId
     IN IF b \notin DOMAIN bookings
        THEN /\ SetProc(p, Done("Cancel", b, "NotFound"))
             /\ UNCHANGED bkLock
        ELSE /\ bkLock[b] = NoProc
             /\ IF CancelCheck(bookings[b], proc[p].userId) # "ok"
                THEN /\ SetProc(p, Done("Cancel", b,
                            CancelCheck(bookings[b], proc[p].userId)))
                     /\ UNCHANGED bkLock
                ELSE /\ bkLock' = [bkLock EXCEPT ![b] = p]
                     /\ SetProc(p, [proc[p] EXCEPT
                           !.pc = "returnTickets",
                           !.booking = bookings[b],
                           !.w = [NoWrites EXCEPT
                                    !.st = {[id |-> b, status |-> "cancelled"]}]])
  /\ UNCHANGED <<wvars, now, events, bookings, payments, redis, evLock,
                 mqUp, published, returned>>

\* a faulty variant of refundAmount: the amount whatever the payment status
refundAmountAlways(booking) ==
  booking.total_amount

\* refundAmount of the cancel response
refundAmount(booking) ==
  IF booking.payment_status = "completed" THEN booking.total_amount ELSE 0

\* UPDATE events SET available_tickets = available_tickets + ?; commit;
\* the booking_cancelled message and the response
ReturnTickets(p) ==
  /\ proc[p].op = "Cancel" /\ proc[p].pc = "returnTickets"
  /\ LET booking == proc[p].booking
         e == booking.event_id
         w == [proc[p].w EXCEPT !.ev = [@ EXCEPT ![e] = @ + booking.ticket_count],
                                !.ret = {proc[p].bookingId}]
     IN /\ evLock[e] = NoProc
        /\ commit(p, w)
        /\ sendToQueue({<<"booking_notifications", "booking_cancelled",
                          proc[p].bookingId>>})
        /\ SetProc(p, [Done("Cancel", proc[p].bookingId, "Cancelled") EXCEPT
                          !.refundAmount = refundAmount(booking)])
  /\ UNCHANGED <<wvars, now, redis>>

\* ---- POST /api/bookings/:bookingId/confirm-payment ------------------------

\* request received
ConfirmPayment(p) ==
  /\ Free(p)
  /\ \E bookingId \in BookingIds :
       SetProc(p, [Idle EXCEPT !.op = "Confirm", !.pc = "selectBooking",
                     !.bookingId = bookingId])
  /\ UNCHANGED <<wvars, now, events, bookings, payments, redis, evLock, bkLock,
                 mqUp, published, returned>>

\* faulty variant of ConfirmCheck: the status is not looked at
ConfirmCheckAnyStatus(booking) == "ok"

\* the answer of the confirm handler to the row it selected, before any write
ConfirmCheck(booking) ==
  IF booking.status # "pending" THEN "NotPending" ELSE "ok"

\* beginTransaction; SELECT * FROM bookings WHERE id = ? FOR UPDATE; the
\* status check
SelectBookingForConfirm(p) ==
  /\ proc[p].op = "Confirm" /\ proc[p].pc = "selectBooking"
  /\ LET b == proc[p].bookingId
     IN IF b \notin DOMAIN bookings
        THEN /\ SetProc(p, Done("Confirm", b, "NotFound"))
             /\ UNCHANGED bkLock
        ELSE /\ bkLock[b] = NoProc
             /\ IF ConfirmCheck(bookings[b]) # "ok"
                THEN /\ SetProc(p, Done("Confirm", b, ConfirmCheck(bookings[b])))
                     /\ UNCHANGED bkLock
                ELSE /\ bkLock' = [bkLock EXCEPT ![b] = p]
                     /\ SetProc(p, [proc[p] EXCEPT !.pc = "confirm",
                                                   !.booking = bookings[b]])
  /\ UNCHANGED <<wvars, now, events, bookings, payments, redis, evLock,
                 mqUp, published, returned>>

\* faulty variant of ConfirmWrites: the payment row is not inserted
ConfirmWritesNoPayment(bookingId, booking) ==
  [NoWrites EXCEPT
     !.st = {[id |-> bookingId, status |-> "confirmed"]},
     !.paid = {bookingId}]

\* the writes of a confirmation: the UPDATE of the booking and the INSERT
\* INTO payments
ConfirmWrites(bookingId, booking) ==
  [NoWrites EXCEPT
     !.st = {[id |-> bookingId, status |-> "confirmed"]},
     !.paid = {bookingId},
     !.pay = <<[booking_id |-> bookingId, amount |-> booking.total_amount,
                status |-> "completed"]>>]

\* UPDATE bookings SET status = "confirmed", payment_status = "completed";
\* INSERT INTO payments; commit; the payment_confirmed message; the response
RecordPayment(p) ==
  /\ proc[p].op = "Confirm" /\ proc[p].pc = "confirm"
  /\ commit(p, ConfirmWrites(proc[p].bookingId, proc[p].booking))
  /\ sendToQueue({<<"booking_confirmations", "payment_confirmed",
                    proc[p].bookingId>>})
  /\ SetProc(p, Done("Confirm", proc[p].bookingId, "Confirmed"))
  /\ UNCHANGED <<wvars, now, redis>>

\* ---- POST /api/bookings/cleanup-expired -----------------------------------

\* request received
CleanupExpired(p) ==
  /\ Free(p)
  /\ SetProc(p, [Idle EXCEPT !.op = "Sweep", !.pc = "selectExpired"])
  /\ UNCHANGED <<wvars, now, events, bookings, payments, redis, evLock, bkLock,
                 mqUp, published, returned>>

\* faulty variant of PendingExpired: expires_at is not compared with NOW()
PendingAnyTime ==
  {i \in DOMAIN bookings : bookings[i].status = "pending"}

\* WHERE status = 'pending' AND expires_at < NOW(), on the committed rows
PendingExpired ==
  {i \in DOMAIN bookings :
     bookings[i].status = "pending" /\ bookings[i].expires_at < now}

\* beginTransaction; SELECT b.id, b.event_id, b.ticket_count, b.user_id ...
\* FOR UPDATE; the early return when nothing was selected
SelectExpiredForUpdate(p) ==
  /\ proc[p].op = "Sweep" /\ proc[p].pc = "selectExpired"
  /\ \A i \in PendingExpired : bkLock[i] = NoProc
  /\ IF PendingExpired = {}
     THEN /\ SetProc(p, Done("Sweep", 0, "NoneExpired"))
          /\ UNCHANGED bkLock
     ELSE /\ bkLock' = [i \in BookingIds |->
                          IF i \in PendingExpired THEN p ELSE bkLock[i]]
          /\ SetProc(p, [proc[p] EXCEPT
                !.pc = "restore",
                !.expiredBookings =
                   {[id |-> i, event_id |-> bookings[i].event_id,
                     ticket_count |-> bookings[i].ticket_count,
                     user_id |-> bookings[i].user_id] : i \in PendingExpired}])
  /\ UNCHANGED <<wvars, now, events, bookings, payments, redis, evLock,
                 mqUp, published, returned>>

\* the for loop: UPDATE events SET available_tickets = available_tickets + ?
\* and the booking_expired message, once for each selected booking
RestoreTickets(p) ==
  /\ proc[p].op = "Sweep" /\ proc[p].pc = "restore"
  /\ LET sel == proc[p].expiredBookings
         touched == {r.event_id : r \in sel}
     IN /\ \A e \in touched : evLock[e] = NoProc
        /\ evLock' = [e \in EventIds |-> IF e \in touched THEN p ELSE evLock[e]]
        /\ SetProc(p, [proc[p] EXCEPT
              !.pc = "markExpired",
              !.w = [NoWrites EXCEPT
                 !.ev = [e \in EventIds |->
                           SumTickets({r \in sel : r.event_id = e})],
                 !.ret = {r.id : r \in sel}]])
        /\ sendToQueue({<<"booking_notifications", "booking_expired", r.id>> :
                           r \in sel})
  /\ UNCHANGED <<wvars, now, events, bookings, payments, redis, bkLock, returned>>

\* UPDATE bookings SET status = 'expired' WHERE status = 'pending' AND
\* expires_at < NOW(); commit; the response with count
MarkExpired(p) ==
  /\ proc[p].op = "Sweep" /\ proc[p].pc = "markExpired"
  /\ \A i \in PendingExpired : bkLock[i] \in {NoProc, p}
  /\ commit(p, [proc[p].w EXCEPT
        !.st = {[id |-> i, status |-> "expired"] : i \in PendingExpired}])
  /\ SetProc(p, [Done("Sweep", 0, "Swept") EXCEPT
                    !.count = Cardinality(proc[p].expiredBookings)])
  /\ UNCHANGED <<wvars, now, redis, mqUp, published>>

\* ---- booking-service-v2: POST /api/bookings --------------------------------

\* request received: only missing fields are rejected, any other ticketCount
\* goes on
V2PostBookings(p) ==
  /\ Free(p)
  /\ \E userId \in Users, eventId \in RequestEventIds, ticketCount \in TicketCounts :
       SetProc(p,
         IF ticketCount = 0
         THEN Done("ReserveV2", 0, "InvalidInput")
         ELSE [Idle EXCEPT !.op = "ReserveV2", !.pc = "v2selectEvent",
                 !.userId = userId, !.eventId = eventId,
                 !.ticketCount = ticketCount])
  /\ UNCHANGED <<wvars, now, events, bookings, payments, redis, evLock, bkLock,
                 mqUp, published, returned>>

\* beginTransaction; SELECT * FROM events WHERE id = ? AND status = "active",
\* a plain read that takes no lock; the availability check on what it read
V2SelectEvent(p) ==
  /\ proc[p].op = "ReserveV2" /\ proc[p].pc = "v2selectEvent"
  /\ LET e == proc[p].eventId
     IN SetProc(p,
          IF e \notin EventIds \/ events[e].status # "active"
          THEN Done("ReserveV2", 0, "NotFound")
          ELSE IF events[e].available_tickets < proc[p].ticketCount
          THEN Done("ReserveV2", 0, "Insufficient")
          ELSE [proc[p] EXCEPT !.pc = "v2insert", !.event = events[e]])
  /\ UNCHANGED <<wvars, now, events, bookings, payments, redis, evLock, bkLock,
                 mqUp, published, returned>>

\* INSERT INTO bookings; UPDATE events SET available_tickets =
\* available_tickets - ?; commit; the 201 response
V2InsertBooking(p) ==
  /\ proc[p].op = "ReserveV2" /\ proc[p].pc = "v2insert"
  /\ evLock[proc[p].eventId] = NoProc
  /\ Len(bookings) < MaxBookings
  /\ commit(p, ReserveWrites(proc[p].userId, proc[p].eventId,
                             proc[p].ticketCount, proc[p].event.price))
  /\ SetProc(p, Done("ReserveV2", Len(bookings) + 1, "Created"))
  /\ UNCHANGED <<wvars, now, redis, mqUp, published>>

\* ---- booking-service-v2: POST /api/bookings/:bookingId/cancel --------------

\* request received
V2CancelBooking(p) ==
  /\ Free(p)
  /\ \E bookingId \in BookingIds, userId \in Users :
       SetProc(p, [Idle EXCEPT !.op = "CancelV2", !.pc = "v2selectBooking",
                     !.bookingId = bookingId, !.userId = userId])
  /\ UNCHANGED <<wvars, now, events, bookings, payments, redis, evLock, bkLock,
                 mqUp, published, returned>>

\* beginTransaction; SELECT * FROM bookings WHERE id = ? AND user_id = ?, a
\* plain read that takes no lock; the status checks on what it read
V2SelectBooking(p) ==
  /\ proc[p].op = "CancelV2" /\ proc[p].pc = "v2selectBooking"
  /\ LET b == proc[p].bookingId
     IN SetProc(p,
          IF b \notin DOMAIN bookings
          THEN Done("CancelV2", b, "NotFound")
          ELSE IF CancelCheck(bookings[b], proc[p].userId) # "ok"
          THEN Done("CancelV2", b, CancelCheck(bookings[b], proc[p].userId))
          ELSE [proc[p] EXCEPT !.pc = "v2returnTickets",
                               !.booking = bookings[b]])
  /\ UNCHANGED <<wvars, now, events, bookings, payments, redis, evLock, bkLock,
                 mqUp, published, returned>>

\* UPDATE bookings SET status = "cancelled"; UPDATE events SET
\* available_tickets = available_tickets + ?; commit; the response
V2ReturnTickets(p) ==
  /\ proc[p].op = "CancelV2" /\ proc[p].pc = "v2returnTickets"
  /\ LET b == proc[p].bookingId
         booking == proc[p].booking
         e == booking.event_id
     IN /\ bkLock[b] = NoProc /\ evLock[e] = NoProc
        /\ commit(p, [NoWrites EXCEPT
               !.st = {[id |-> b, status |-> "cancelled"]},
               !.ev = [@ EXCEPT ![e] = booking.ticket_count],
               !.ret = {b}])
        /\ SetProc(p, [Done("CancelV2", b, "Cancelled") EXCEPT
                          !.refundAmount = refundAmount(booking)])
  /\ UNCHANGED <<wvars, now, redis, mqUp, published>>

\* a statement of an open transaction of booking-service-v2 throws: the
\* catch block rolls back and answers 500
V2TxError(p) ==
  /\ proc[p].pc \in {"v2selectEvent", "v2insert", "v2selectBooking",
                     "v2returnTickets"}
  /\ rollback(p)
  /\ SetProc(p, Done(proc[p].op, proc[p].bookingId, "Internal"))
  /\ UNCHANGED <<wvars, now, redis, mqUp, published>>

\* ---- event service: PUT /api/events/:id ------------------------------------

\* the request slot that serves the requests to the event service
AdminSlot == 2

\* the totalTickets of an update request; 0 stands for a request without one
NewTotals == {0, 1, 3}

\* request received
PutEvent(p) ==
  /\ Free(p)
  /\ \E id \in RequestEventIds, totalTickets \in NewTotals :
       SetProc(p, [Idle EXCEPT !.op = "Put", !.pc = "putSelect",
                     !.eventId = id, !.ticketCount = totalTickets])
  /\ UNCHANGED <<wvars, now, events, bookings, payments, redis, evLock, bkLock,
                 mqUp, published, returned>>

\* SELECT id, available_tickets, total_tickets FROM events WHERE id = ?, on
\* the pool and outside any transaction; the check against soldTickets
PutSelect(p) ==
  /\ proc[p].op = "Put" /\ proc[p].pc = "putSelect"
  /\ LET e == proc[p].eventId
         totalTickets == proc[p].ticketCount
     IN SetProc(p,
          IF e \notin EventIds THEN Done("Put", 0, "NotFound")
          ELSE IF totalTickets # 0
                  /\ totalTickets < events[e].total_tickets
                                      - events[e].available_tickets
          THEN Done("Put", 0, "BelowSold")
          ELSE [proc[p] EXCEPT !.pc = "putUpdate", !.event = events[e]])
  /\ UNCHANGED <<wvars, now, events, bookings, payments, redis, evLock, bkLock,
                 mqUp, published, returned>>

\* newAvailableTickets computed from the row that was read
newAvailableTickets(existingEvent, totalTickets) ==
  IF totalTickets # 0
  THEN totalTickets - (existingEvent.total_tickets
                         - existingEvent.available_tickets)
  ELSE existingEvent.available_tickets

\* UPDATE events SET total_tickets = COALESCE(?, total_tickets),
\* available_tickets = ? WHERE id = ?, which waits for the row lock
PutUpdate(p) ==
  /\ proc[p].op = "Put" /\ proc[p].pc = "putUpdate"
  /\ LET e == proc[p].eventId
         totalTickets == proc[p].ticketCount
     IN /\ evLock[e] = NoProc
        /\ events' = [events EXCEPT
              ![e].total_tickets = IF totalTickets # 0 THEN totalTickets ELSE @,
              ![e].available_tickets =
                 newAvailableTickets(proc[p].event, totalTickets)]
  /\ SetProc(p, Done("Put", 0, "Updated"))
  /\ UNCHANGED <<wvars, now, bookings, payments, redis, evLock, bkLock,
                 mqUp, published, returned>>

\* a statement of the update handler throws: 500
PutError(p) ==
  /\ proc[p].op = "Put" /\ proc[p].pc \in {"putSelect", "putUpdate"}
  /\ SetProc(p, Done("Put", 0, "Internal"))
  /\ UNCHANGED <<wvars, now, events, bookings, payments, redis, evLock, bkLock,
                 mqUp, published, returned>>

\* ---- failures and environment ---------------------------------------------

\* a statement of the open transaction throws: the catch block rolls back
\* and answers 500
TxError(p) ==
  /\ TxOpen(p)
  /\ rollback(p)
  /\ SetProc(p, IF proc[p].op = "Reserve"
                THEN Responded(p, "Internal")
                ELSE Done(proc[p].op, proc[p].bookingId, "Internal"))
  /\ UNCHANGED <<wvars, now, redis, mqUp, published>>

\* a faulty variant of LockExpire: SET without PX, the key never expires
LockWithoutTTL(k) ==
  FALSE

\* the key's TTL ran out
LockExpire(k) ==
  /\ redis[k] # NoToken
  /\ redis' = [redis EXCEPT ![k] = NoToken]
  /\ UNCHANGED <<wvars, now, events, bookings, payments, evLock, bkLock, proc,
                 mqUp, published, returned>>

\* the channel to the message broker closes; nothing reopens it
ChannelClosed ==
  /\ mqUp
  /\ mqUp' = FALSE
  /\ UNCHANGED <<wvars, now, events, bookings, payments, redis, evLock, bkLock, proc,
                 published, returned>>

\* time passes
Tick ==
  /\ now < MaxTicks * TickMinutes
  /\ now' = now + TickMinutes
  /\ UNCHANGED <<wvars, events, bookings, payments, redis, evLock, bkLock, proc,
                 mqUp, published, returned>>

\* ---- payment service: processPayment --------------------------------------

\* the broker delivers a message of payment_processing: processPayment(msg)
\* starts; the message stays unacknowledged with this delivery
Deliver(d) ==
  /\ work[d].pc = "idle"
  /\ \E m \in queue :
       /\ queue' = queue \ {m}
       /\ work' = [work EXCEPT ![d] = [NoWork EXCEPT !.pc = "gateway", !.msg = m]]
  /\ UNCHANGED <<bvars, results, deadLetters>>

\* paymentResult = await processPaymentGateway(bookingId, amount): the mock
\* gateway answers success or failure
processPaymentGateway(d) ==
  /\ work[d].pc = "gateway"
  /\ \E success \in BOOLEAN :
       work' = [work EXCEPT ![d].pc = "call", ![d].success = success]
  /\ UNCHANGED <<bvars, queue, results, deadLetters>>

\* faulty variant of Catch: the retry counter is not compared with the limit
CatchWithoutLimit(d) ==
  /\ work' = [work EXCEPT
                ![d].pc = "backoff",
                ![d].delay = BackoffSeconds * (work[d].msg.retryCount + 1)]
  /\ UNCHANGED deadLetters

\* the catch block: with retryCount < 3 a timer is set that will republish
\* the message; otherwise the message is acknowledged and dropped
Catch(d) ==
  IF work[d].msg.retryCount < MaxRetries
  THEN /\ work' = [work EXCEPT
                     ![d].pc = "backoff",
                     ![d].delay = BackoffSeconds * (work[d].msg.retryCount + 1)]
       /\ UNCHANGED deadLetters
  ELSE /\ work' = [work EXCEPT ![d] = NoWork]
       /\ deadLetters' = deadLetters \cup {work[d].msg}

\* the request that processPayment sends to the booking service:
\* confirm-payment after a gateway success, cancel with the userId of the
\* message after a gateway failure
WorkerRequest(w) ==
  IF w.success
  THEN [Idle EXCEPT !.op = "Confirm", !.pc = "selectBooking",
                    !.bookingId = w.msg.bookingId]
  ELSE [Idle EXCEPT !.op = "Cancel", !.pc = "selectBooking",
                    !.bookingId = w.msg.bookingId, !.userId = w.msg.userId]

\* await axios.post(...): the request reaches the booking service
CallBookingService(d) ==
  /\ work[d].pc = "call"
  /\ Free(WorkerSlot)
  /\ SetProc(WorkerSlot, WorkerRequest(work[d]))
  /\ work' = [work EXCEPT ![d].pc = "await"]
  /\ UNCHANGED <<now, events, bookings, payments, redis, evLock, bkLock,
                 mqUp, published, returned, queue, results, deadLetters>>

\* await axios.post(...) throws because the booking service is not reached
CallFails(d) ==
  /\ work[d].pc = "call"
  /\ Catch(d)
  /\ UNCHANGED <<bvars, queue, results>>

\* await axios.post(...) throws because the connection breaks before the
\* response arrives; the handler of the booking service runs on
ResponseLost(d) ==
  /\ work[d].pc = "await"
  /\ Catch(d)
  /\ UNCHANGED <<bvars, queue, results>>

\* the response of the booking service arrives: after a 2xx the message for
\* payment_results and rabbitChannel.ack(msg); any other status makes
\* axios.post throw
Responds(d) ==
  /\ work[d].pc = "await"
  /\ proc[WorkerSlot].pc = "done"
  /\ IF proc[WorkerSlot].result \in {"Confirmed", "Cancelled"}
     THEN /\ results' = results \cup
               {<<work[d].msg.bookingId,
                  IF work[d].success THEN "success" ELSE "failed">>}
          /\ work' = [work EXCEPT ![d] = NoWork]
          /\ UNCHANGED deadLetters
     ELSE /\ Catch(d)
          /\ UNCHANGED results
  /\ UNCHANGED <<bvars, queue>>

\* faulty variant of Republish: the message is acknowledged, the copy is
\* not sent
RepublishAckOnly(d) ==
  /\ work[d].pc = "backoff"
  /\ work' = [work EXCEPT ![d] = NoWork]
  /\ UNCHANGED <<bvars, queue, results, deadLetters>>

\* the timer of the catch block fires: sendToQueue('payment_processing',
\* msg.content, headers: retryCount + 1) and rabbitChannel.ack(msg)
Republish(d) ==
  /\ work[d].pc = "backoff"
  /\ queue' = queue \cup {[work[d].msg EXCEPT !.retryCount = @ + 1]}
  /\ work' = [work EXCEPT ![d] = NoWork]
  /\ UNCHANGED <<bvars, results, deadLetters>>

\* the payment service stops at any point (crash, closed channel): consume
\* runs with noAck: false, so the broker puts every delivered message that
\* was not acknowledged back into payment_processing; pending timers are gone
WorkerCrash ==
  /\ \E d \in Deliveries : work[d].pc # "idle"
  /\ queue' = queue \cup
       {work[d].msg : d \in {x \in Deliveries : work[x].pc # "idle"}}
  /\ work' = [d \in Deliveries |-> NoWork]
  /\ UNCHANGED <<bvars, results, deadLetters>>

\* ---- payment service: POST /api/payments/process ---------------------------

MaxPayments == 2                \* rows the payments table may grow to
ManualAmounts == {0, 50, 100}   \* amount of the request body

\* the manual payment endpoint: a missing bookingId or amount is rejected;
\* after a gateway success INSERT INTO payments (booking_id, amount, ...,
\* 'completed') through the pool, the booking is not read; booking_id must
\* reference a row of bookings
ProcessPaymentManual ==
  /\ \E bookingId \in 0..MaxBookings, amount \in ManualAmounts,
        success \in BOOLEAN :
       IF bookingId = 0 \/ amount = 0
       THEN UNCHANGED payments                \* 400 Missing required fields
       ELSE IF ~success
       THEN UNCHANGED payments                \* 400 with the gateway's error
       ELSE IF bookingId \notin DOMAIN bookings
       THEN UNCHANGED payments                \* foreign key violation: 500
       ELSE /\ Len(payments) < MaxPayments
            /\ payments' = Append(payments,
                 [booking_id |-> bookingId, amount |-> amount,
                  status |-> "completed"])
  /\ UNCHANGED <<wvars, now, events, bookings, redis, evLock, bkLock, proc,
                 mqUp, published, returned>>

\* ---- next-state relations -------------------------------------------------

ReserveStep(p) ==
  \/ PostBookings(p)
  \/ AcquireLockOk(p)
  \/ AcquireLockBusy(p)
  \/ SelectEventForUpdate(p)
  \/ InsertBooking(p)
  \/ FinallyRelease(p)

CancelStep(p) ==
  \/ CancelBooking(p)
  \/ SelectBookingForCancel(p)
  \/ ReturnTickets(p)

ConfirmStep(p) ==
  \/ ConfirmPayment(p)
  \/ SelectBookingForConfirm(p)
  \/ RecordPayment(p)

SweepStep(p) ==
  \/ CleanupExpired(p)
  \/ SelectExpiredForUpdate(p)
  \/ RestoreTickets(p)
  \/ MarkExpired(p)

\* the booking service: every handler in every request slot
Next ==
  \/ \E p \in Procs : ReserveStep(p)
  \/ \E p \in Procs : CancelStep(p)
  \/ \E p \in Procs : ConfirmStep(p)
  \/ \E p \in Procs : SweepStep(p)
  \/ \E p \in Procs : TxError(p)
  \/ \E k \in RequestEventIds : LockExpire(k)
  \/ ChannelClosed
  \/ Tick

Spec == Init /\ [][Next]_vars

\* one request at a time: every handler, in request slot 1 only
NextSeq ==
  \/ ReserveStep(1)
  \/ CancelStep(1)
  \/ ConfirmStep(1)
  \/ SweepStep(1)
  \/ TxError(1)
  \/ \E k \in RequestEventIds : LockExpire(k)
  \/ ChannelClosed
  \/ Tick

SpecSeq == Init /\ [][NextSeq]_vars

\* concurrent reservations: POST /api/bookings in every request slot
NextReserve ==
  \/ \E p \in Procs : ReserveStep(p)
  \/ \E p \in Procs : TxError(p)
  \/ \E k \in RequestEventIds : LockExpire(k)
  \/ ChannelClosed

SpecReserve == Init /\ [][NextReserve]_vars

\* the same, where the time of the lock service advances: a key that is set
\* runs out of its TTL, whether or not the handler that set it goes on
SpecTTL ==
  /\ SpecReserve
  /\ \A k \in RequestEventIds : WF_vars(LockExpire(k))

\* one event update at a time in its own request slot, next to the
\* reservations of the clients in theirs
NextPut ==
  \/ ReserveStep(UserSlot)
  \/ TxError(UserSlot)
  \/ PutEvent(AdminSlot)
  \/ PutSelect(AdminSlot)
  \/ PutUpdate(AdminSlot)
  \/ PutError(AdminSlot)

SpecPut == Init /\ [][NextPut]_vars

\* booking-service-v2 alone: its two endpoints in every request slot
NextV2 ==
  \/ \E p \in Procs : V2PostBookings(p)
  \/ \E p \in Procs : V2SelectEvent(p)
  \/ \E p \in Procs : V2InsertBooking(p)
  \/ \E p \in Procs : V2CancelBooking(p)
  \/ \E p \in Procs : V2SelectBooking(p)
  \/ \E p \in Procs : V2ReturnTickets(p)
  \/ \E p \in Procs : V2TxError(p)

SpecV2 == Init /\ [][NextV2]_vars

\* two pending bookings of two users, one ticket each, made one clock advance
\* apart: the state after Reserve(1, 1, 1) at 0 and Reserve(2, 1, 1) at
\* TickMinutes on an event that had two tickets
InitLife ==
  /\ now = TickMinutes
  /\ events = [e \in EventIds |->
        [total_tickets |-> 2, available_tickets |-> 0, price |-> 50,
         status |-> "active", event_date |-> 1450]]
  /\ bookings = <<[NewBooking(1, 1, 1, 50) EXCEPT !.expires_at = ReservationMinutes],
                  NewBooking(2, 1, 1, 50)>>
  /\ payments = <<>>
  /\ redis = [k \in RequestEventIds |-> NoToken]
  /\ evLock = [e \in EventIds |-> NoProc]
  /\ bkLock = [b \in BookingIds |-> NoProc]
  /\ proc = [p \in Procs |-> Idle]
  /\ mqUp \in BOOLEAN
  /\ published = {<<"booking_notifications", "booking_created", 1>>,
                  <<"payment_processing", "payment", 1>>,
                  <<"booking_notifications", "booking_created", 2>>,
                  <<"payment_processing", "payment", 2>>}
  /\ returned = [b \in BookingIds |-> 0]
  /\ queue = {PaymentMessage(1, 1), PaymentMessage(2, 2)}
  /\ work = [d \in Deliveries |-> NoWork]
  /\ results = {}
  /\ deadLetters = {}

\* the life of existing bookings: cancel, confirm-payment and cleanup-expired
\* in every request slot
NextLife ==
  \/ \E p \in Procs : CancelStep(p)
  \/ \E p \in Procs : ConfirmStep(p)
  \/ \E p \in Procs : SweepStep(p)
  \/ \E p \in Procs : TxError(p)
  \/ ChannelClosed
  \/ Tick

SpecLife == InitLife /\ [][NextLife]_vars

\* the prices an event can have: PUT /api/events/:id stores any price it is
\* given, 0 included
Prices == {0, 50}

\* one pending booking of user 1 for one ticket, just made, on an event of
\* any price that starts in more than 24 hours
InitRefund ==
  /\ now = 0
  /\ \E price \in Prices :
       /\ events = [e \in EventIds |->
             [total_tickets |-> 2, available_tickets |-> 1, price |-> price,
              status |-> "active", event_date |-> 1450]]
       /\ bookings = <<NewBooking(1, 1, 1, price)>>
  /\ payments = <<>>
  /\ redis = [k \in RequestEventIds |-> NoToken]
  /\ evLock = [e \in EventIds |-> NoProc]
  /\ bkLock = [b \in BookingIds |-> NoProc]
  /\ proc = [p \in Procs |-> Idle]
  /\ mqUp \in BOOLEAN
  /\ published = {<<"booking_notifications", "booking_created", 1>>,
                  <<"payment_processing", "payment", 1>>}
  /\ returned = [b \in BookingIds |-> 0]
  /\ queue = {PaymentMessage(1, 1)}
  /\ work = [d \in Deliveries |-> NoWork]
  /\ results = {}
  /\ deadLetters = {}

SpecRefund == InitRefund /\ [][NextLife]_vars

\* abandoned bookings: their payment messages are never processed and no
\* client confirms or cancels them, so that only cleanup-expired acts on them
NextReclaim ==
  \/ \E p \in Procs : SweepStep(p)
  \/ ChannelClosed
  \/ Tick

\* the same, where time advances and cleanup-expired is called again and
\* again and runs to its end
SpecReclaim ==
  /\ InitLife /\ [][NextReclaim]_vars
  /\ WF_vars(Tick)
  /\ \A p \in Procs : WF_vars(SweepStep(p))

WorkerStep(d) ==
  \/ Deliver(d)
  \/ processPaymentGateway(d)
  \/ CallBookingService(d)
  \/ CallFails(d)
  \/ ResponseLost(d)
  \/ Responds(d)
  \/ Republish(d)

\* the handlers that serve the requests of the payment service
ServeWorker(p) ==
  \/ SelectBookingForConfirm(p)
  \/ RecordPayment(p)
  \/ SelectBookingForCancel(p)
  \/ ReturnTickets(p)
  \/ TxError(p)

\* one pending booking with its payment message in the queue: the state
\* after Reserve(1, 1, 1) at 0 on an event that had two tickets
InitWorker ==
  /\ now = 0
  /\ events = [e \in EventIds |->
        [total_tickets |-> 2, available_tickets |-> 1, price |-> 50,
         status |-> "active", event_date |-> 1450]]
  /\ bookings = <<NewBooking(1, 1, 1, 50)>>
  /\ payments = <<>>
  /\ redis = [k \in RequestEventIds |-> NoToken]
  /\ evLock = [e \in EventIds |-> NoProc]
  /\ bkLock = [b \in BookingIds |-> NoProc]
  /\ proc = [p \in Procs |-> Idle]
  /\ mqUp \in BOOLEAN
  /\ published = {<<"booking_notifications", "booking_created", 1>>,
                  <<"payment_processing", "payment", 1>>}
  /\ returned = [b \in BookingIds |-> 0]
  /\ queue = {PaymentMessage(1, 1)}
  /\ work = [d \in Deliveries |-> NoWork]
  /\ results = {}
  /\ deadLetters = {}

\* payment reconciliation: the payment service processes the queue and calls
\* the booking service, while a client cancels and confirms and the sweep runs
NextWorker ==
  \/ \E d \in Deliveries : WorkerStep(d)
  \/ ServeWorker(WorkerSlot)
  \/ CancelStep(UserSlot)
  \/ ConfirmStep(UserSlot)
  \/ SweepStep(UserSlot)
  \/ TxError(UserSlot)
  \/ ChannelClosed
  \/ Tick

SpecWorker == InitWorker /\ [][NextWorker]_vars

\* the same, where the payment service and the handlers that serve it keep
\* running: the broker delivers a waiting message, the event loop runs every
\* continuation and timer that is ready, and a handler that cannot get a row
\* lock ends with the lock wait timeout
\* the payment service alone: nobody but it calls the booking service
NextRedelivery ==
  \/ \E d \in Deliveries : WorkerStep(d)
  \/ ServeWorker(WorkerSlot)
  \/ ChannelClosed
  \/ Tick

SpecRedelivery == InitWorker /\ [][NextRedelivery]_vars

SpecWorkerFair ==
  /\ SpecWorker
  /\ WF_vars(\E d \in Deliveries : WorkerStep(d))
  /\ WF_vars(ServeWorker(WorkerSlot))

\* ---- properties ------------------------------------------------------------

\* C1 (conservation): in every state of the committed tables, whatever
\* Reserve, Confirm, Cancel and SweepExpired calls ran before, for every event
\* available_tickets plus the ticket_count of its pending and confirmed
\* bookings equals total_tickets.
Conservation ==
  \A e \in EventIds :
    events[e].available_tickets + HeldTickets(e) = events[e].total_tickets

\* tickets of event e over all its bookings, whatever their status
BookedTickets(e) ==
  SumTickets({[id |-> r.id, ticket_count |-> r.row.ticket_count] :
     r \in {x \in BookingRows : x.row.event_id = e}})

\* available_tickets is never negative, and the bookings made by successful
\* Reserve calls never add up to more than the event had
NoOversell ==
  \A e \in EventIds :
    /\ events[e].available_tickets >= 0
    /\ BookedTickets(e) <= events[e].total_tickets

\* a Reserve call in flight, not yet answered, that asks for more tickets
\* than a bookable event has left
Excess(p) ==
  /\ proc[p].op = "Reserve"
  /\ proc[p].pc \in {"acquire", "selectEvent", "insert"}
  /\ events[proc[p].eventId].status = "active"
  /\ events[proc[p].eventId].event_date > now
  /\ proc[p].ticketCount > events[proc[p].eventId].available_tickets

\* the step gives the call of slot p its answer
Answered(p) == proc[p].result = "none" /\ proc'[p].result # "none"

\* C2 as stated (no oversell): concurrent Reserve calls never oversell, and
\* every call that would exceed the remaining inventory is answered
\* Insufficient (Internal, when its transaction failed).
NoOversellExcessInsufficient ==
  /\ []NoOversell
  /\ [][\A p \in Procs :
          Excess(p) /\ Answered(p)
            => proc'[p].result \in {"Insufficient", "Internal"}]_vars

\* C2 amended: concurrent Reserve calls never oversell, and a call that would
\* exceed the remaining inventory never succeeds and changes neither events
\* nor bookings; it is answered Busy when it did not get the event lock, and
\* Insufficient (Internal, when its transaction failed) when it did.
NoOversellExcessRejected ==
  /\ []NoOversell
  /\ [][\A p \in Procs :
          Excess(p) /\ Answered(p)
            => /\ IF proc[p].pc = "acquire"
                  THEN proc'[p].result = "Busy"
                  ELSE proc'[p].result \in {"Insufficient", "Internal"}
               /\ UNCHANGED <<events, bookings>>]_vars

\* one call took tickets and another call was answered Insufficient
ExcessCallRejected ==
  \E p, q \in Procs :
    /\ proc[p].op = "Reserve" /\ proc[p].result = "Insufficient"
    /\ proc[q].op = "Reserve" /\ proc[q].result = "Created"
    /\ \E e \in EventIds : 0 < BookedTickets(e)
                           /\ events[e].available_tickets < InitTickets

LegalTransitions ==
  {<<"pending", "confirmed">>, <<"pending", "cancelled">>,
   <<"pending", "expired">>, <<"confirmed", "cancelled">>}

\* C3 (booking state machine): the status of a booking only ever changes
\* pending->confirmed, pending->cancelled, pending->expired or
\* confirmed->cancelled; no operation takes a booking through any other
\* transition.
StateMachine ==
  [][\A b \in DOMAIN bookings :
       bookings'[b].status # bookings[b].status
         => <<bookings[b].status, bookings'[b].status>> \in LegalTransitions]_vars

\* the token that lock key k holds belongs to a Reserve call that is between
\* its acquisition and its release
HeldByCallInFlight(k) ==
  /\ redis[k] \in Procs
  /\ proc[redis[k]].op = "Reserve"
  /\ proc[redis[k]].pc \in {"selectEvent", "insert", "finally"}
  /\ proc[redis[k]].lockValue = redis[k]
  /\ lockKey(proc[redis[k]].eventId) = k

\* C4 (lock safety): the release of a Reserve call deletes the lock key only
\* when the key holds exactly the token of that call; when the key holds
\* another token (the call's own lock expired and another call acquired the
\* key since) the release changes nothing and the other lock is still held.
LockSafety ==
  [][\A p \in Procs :
       (proc[p].pc = "finally" /\ proc'[p].pc = "done")
         => \A k \in RequestEventIds :
              IF redis'[k] # redis[k]
              THEN /\ k = lockKey(proc[p].eventId)
                   /\ redis[k] = proc[p].lockValue
                   /\ redis'[k] = NoToken
              ELSE TRUE]_vars

\* a call is about to release with a token the key no longer holds, while
\* the key holds the token of another call in flight
StaleRelease ==
  \E p \in Procs :
    /\ proc[p].op = "Reserve" /\ proc[p].pc = "finally"
    /\ redis[lockKey(proc[p].eventId)] \notin {NoToken, proc[p].lockValue}
    /\ HeldByCallInFlight(lockKey(proc[p].eventId))

\* the rows of the payments table that belong to booking b
PaymentsOf(b) == {i \in DOMAIN payments : payments[i].booking_id = b}

\* a booking has at most one payment row, and has one exactly when its
\* payment_status is completed
OnePaymentPerBooking ==
  \A b \in DOMAIN bookings :
    /\ Cardinality(PaymentsOf(b)) <= 1
    /\ bookings[b].payment_status = "completed"
         <=> Cardinality(PaymentsOf(b)) = 1

\* a Confirm call that finds its booking not pending is rejected and changes
\* none of the tables
ConfirmRejected(p) ==
  (/\ proc[p].op = "Confirm" /\ proc[p].pc = "selectBooking"
   /\ proc[p].bookingId \in DOMAIN bookings
   /\ bookings[proc[p].bookingId].status # "pending"
   /\ proc'[p] # proc[p])
    => /\ proc'[p].pc = "done"
       /\ proc'[p].result \in {"NotPending", "Internal"}
       /\ UNCHANGED <<bookings, events, payments, returned>>

\* the payments table changes only in the step of a Confirm call that takes
\* its booking from pending to confirmed and completed, adds one payment row
\* for it and leaves events alone
ConfirmEffect ==
  payments' # payments
    => \E p \in Procs :
         LET b == proc[p].bookingId
         IN /\ proc[p].op = "Confirm" /\ proc'[p].result = "Confirmed"
            /\ bookings[b].status = "pending"
            /\ bookings'[b].status = "confirmed"
            /\ bookings'[b].payment_status = "completed"
            /\ Len(payments') = Len(payments) + 1
            /\ payments'[Len(payments')].booking_id = b
            /\ \A c \in DOMAIN bookings : c # b => bookings'[c] = bookings[c]
            /\ UNCHANGED <<events, returned>>

\* C5 (idempotent confirmation): of the Confirm calls on one booking,
\* sequential or concurrent, only one changes state (pending->confirmed,
\* payment_status completed, one payment row); a call that finds the booking
\* not pending is rejected and leaves bookings, events and payments unchanged.
IdempotentConfirm ==
  /\ []OnePaymentPerBooking
  /\ [][(\A p \in Procs : ConfirmRejected(p)) /\ ConfirmEffect]_vars

\* two Confirm calls on the same booking have finished: one confirmed it,
\* the other was rejected, and the booking has one payment row
ConfirmedOnceRejectedOnce ==
  \E p, q \in Procs :
    /\ proc[p].op = "Confirm" /\ proc[p].pc = "done"
    /\ proc[q].op = "Confirm" /\ proc[q].pc = "done"
    /\ proc[p].bookingId = proc[q].bookingId
    /\ proc[p].result = "Confirmed" /\ proc[q].result = "NotPending"
    /\ Cardinality(PaymentsOf(proc[p].bookingId)) = 1

\* C6 (expiry correctness): a booking that sweeps have set to expired had its
\* ticket_count added back to available_tickets exactly once in total.
ExpiredReturnedOnce ==
  \A b \in DOMAIN bookings :
    bookings[b].status = "expired" => returned[b] = 1

\* a Confirm call for booking b is in flight
ConfirmInFlight(b) ==
  \E p \in Procs :
    proc[p].op = "Confirm" /\ proc[p].pc # "done" /\ proc[p].bookingId = b

\* C7 (confirm/sweep race): when a Confirm call and a sweep race for a pending
\* booking, the step that decides it either confirms it with its tickets
\* still held, or expires it with its tickets returned; and an expired
\* booking is never confirmed afterwards.
ConfirmSweepRace ==
  [][\A b \in DOMAIN bookings :
       /\ bookings[b].status = "expired" => bookings'[b].status # "confirmed"
       /\ (bookings[b].status = "pending" /\ ConfirmInFlight(b))
            => /\ bookings'[b].status = "confirmed"
                    => returned'[b] = returned[b] /\ events' = events
               /\ bookings'[b].status = "expired"
                    => returned'[b] = returned[b] + 1]_vars

\* the step is the commit of a successful Reserve call of slot p: one booking
\* row is added and the counter of its event goes down by its ticket_count
ReserveCommitted(p) ==
  LET e == proc[p].eventId
      n == proc[p].ticketCount
  IN /\ proc[p].op = "Reserve" /\ proc[p].pc = "insert"
     /\ proc'[p].result = "Created"
     /\ Len(bookings') = Len(bookings) + 1
     /\ \A b \in DOMAIN bookings : bookings'[b] = bookings[b]
     /\ bookings'[Len(bookings')].event_id = e
     /\ bookings'[Len(bookings')].ticket_count = n
     /\ bookings'[Len(bookings')].status = "pending"
     /\ events' = [events EXCEPT ![e].available_tickets = @ - n]

\* C8 (Reserve is all-or-nothing): a Reserve call that fails (InvalidInput,
\* Busy, NotFound, PastEvent, Insufficient, DuplicateBooking, Internal) leaves
\* available_tickets and the bookings as they were; the tables change only in
\* the commit of a successful call, which adds the booking row and takes its
\* ticket_count off the counter in the same step.
ReserveAllOrNothing ==
  [][/\ (events' # events \/ bookings' # bookings)
          => \E p \in Procs : ReserveCommitted(p)
     /\ \A p \in Procs :
          (proc'[p].op = "Reserve" /\ proc'[p] # proc[p]
           /\ proc'[p].result \notin {"none", "Created"})
            => UNCHANGED <<events, bookings>>]_vars

\* a call was answered DuplicateBooking after its transaction had locked the
\* event row, and the tables hold just the booking that an earlier call
\* committed
ReserveFailedInTransaction ==
  \E p \in Procs :
    /\ proc[p].op = "Reserve"
    /\ proc[p].result = "DuplicateBooking"
    /\ Len(bookings) = 1
    /\ \A e \in EventIds : evLock[e] # p
    /\ events[bookings[1].event_id].available_tickets
         = InitTickets - bookings[1].ticket_count

\* C9 (release on every exit path): once a call has returned, the lock key
\* no longer holds its token and its transaction holds no row lock.
ReleasedOnReturn ==
  \A p \in Procs :
    Free(p) => /\ \A k \in RequestEventIds : redis[k] # p
               /\ \A e \in EventIds : evLock[e] # p
               /\ \A b \in BookingIds : bkLock[b] # p

\* C10 (fail-fast on contention): a Reserve call that finds the lock key of
\* its event held by another token is answered Busy in its next step, without
\* opening a transaction and without changing the key or any table.
FailFast ==
  [][\A p \in Procs :
       (/\ proc[p].op = "Reserve" /\ proc[p].pc = "acquire"
        /\ redis[lockKey(proc[p].eventId)] # NoToken
        /\ proc'[p] # proc[p])
         => /\ proc'[p].pc = "done" /\ proc'[p].result = "Busy"
            /\ UNCHANGED <<redis, events, bookings, payments, evLock, bkLock,
                           published, returned>>]_vars

\* a call was answered Busy while the key holds the token of the other call,
\* which is still between its acquisition and its release
BusyWhileHeld ==
  \E p \in Procs :
    /\ proc[p].op = "Reserve" /\ proc[p].pc = "done" /\ proc[p].result = "Busy"
    /\ \E k \in RequestEventIds : HeldByCallInFlight(k) /\ redis[k] # p

\* the active (pending or confirmed) bookings of a user for an event
ActiveBookings(u, e) ==
  {i \in DOMAIN bookings :
     /\ bookings[i].user_id = u /\ bookings[i].event_id = e
     /\ bookings[i].status \in {"pending", "confirmed"}}

\* C11 (one active reservation per user per event): for each user and event
\* at most one booking is pending or confirmed, under any interleaving of
\* Reserve calls; a Reserve call that reaches the duplicate check while the
\* user has an active booking for the event is answered DuplicateBooking
\* (Internal when its transaction failed) and changes no table.
OneActivePerUserEvent ==
  /\ [](\A u \in Users, e \in EventIds : Cardinality(ActiveBookings(u, e)) <= 1)
  /\ [][\A p \in Procs :
          (/\ proc[p].op = "Reserve" /\ proc[p].pc = "insert"
           /\ ActiveBookings(proc[p].userId, proc[p].eventId) # {}
           /\ proc'[p] # proc[p])
            => /\ proc'[p].result \in {"DuplicateBooking", "Internal"}
               /\ UNCHANGED <<events, bookings>>]_vars

\* the second call of a user was answered DuplicateBooking while the call
\* that created the user's booking had not returned yet
DuplicateWhileFirstInFlight ==
  \E p, q \in Procs :
    /\ proc[p].op = "Reserve" /\ proc[p].result = "DuplicateBooking"
    /\ proc[q].op = "Reserve" /\ proc[q].pc = "finally"
    /\ proc[q].result = "Created"
    /\ Cardinality(ActiveBookings(bookings[proc[q].bookingId].user_id,
                                  bookings[proc[q].bookingId].event_id)) = 1
    /\ Len(bookings) = 1

\* the step ends a processPayment call at the end of its try block: the
\* message is acknowledged, neither republished nor dropped
Acknowledged(d) ==
  /\ work[d].pc = "await" /\ work'[d] = NoWork
  /\ deadLetters' = deadLetters

\* C12 (gateway-failure reconciliation): when the payment service has
\* finished a message for which the gateway declared failure, the booking is
\* cancelled, its tickets have gone back to available_tickets, it has no
\* payment row with status completed, and the message is acknowledged.
GatewayFailureReconciled ==
  [][\A d \in Deliveries :
       (Acknowledged(d) /\ ~work[d].success)
         => LET b == work[d].msg.bookingId
            IN /\ bookings'[b].status = "cancelled"
               /\ returned'[b] >= 1
               /\ \A i \in DOMAIN payments' :
                    payments'[i].booking_id = b
                      => payments'[i].status # "completed"
               /\ work[d].msg \notin queue']_vars

\* the step commits the confirmation that the payment service asked for
WorkerConfirmCommits ==
  /\ proc[WorkerSlot].op = "Confirm" /\ proc[WorkerSlot].pc = "confirm"
  /\ proc'[WorkerSlot].result = "Confirmed"

\* C13 (gateway-success reconciliation): when the gateway returned success
\* and the confirm call succeeds, the booking becomes confirmed with
\* payment_status completed, exactly one payment row with status completed is
\* recorded for it in the same commit, available_tickets is unchanged, a
\* payment_confirmed notification is enqueued, and the message is acknowledged.
GatewaySuccessReconciled ==
  [][/\ WorkerConfirmCommits
          => LET b == proc[WorkerSlot].bookingId
             IN /\ bookings[b].status = "pending"
                /\ bookings'[b].status = "confirmed"
                /\ bookings'[b].payment_status = "completed"
                /\ Len(payments') = Len(payments) + 1
                /\ payments'[Len(payments')].booking_id = b
                /\ payments'[Len(payments')].status = "completed"
                /\ \A i \in DOMAIN payments : payments[i].booking_id # b
                /\ events' = events
                /\ <<"booking_confirmations", "payment_confirmed", b>>
                     \in published'
     /\ \A d \in Deliveries :
          (Acknowledged(d) /\ work[d].success)
            => /\ work[d].msg \notin queue'
               /\ <<"booking_confirmations", "payment_confirmed",
                    work[d].msg.bookingId>> \in published']_vars

\* every message, waiting or being processed
Messages == queue \cup {work[d].msg : d \in {x \in Deliveries : work[x].pc # "idle"}}

\* the step raises an error in the processPayment call of delivery d
Raises(d) ==
  /\ work[d].pc \in {"call", "await"}
  /\ work'[d] # work[d]
  /\ work'[d].pc # "await"
  /\ ~Acknowledged(d)

\* what the catch block does with the message
RetryOrDrop(d) ==
  IF work[d].msg.retryCount < MaxRetries
  THEN /\ work'[d].pc = "backoff"
       /\ work'[d].msg = work[d].msg
       /\ work'[d].delay = BackoffSeconds * (work[d].msg.retryCount + 1)
       /\ UNCHANGED <<queue, deadLetters>>
  ELSE /\ work'[d] = NoWork
       /\ deadLetters' = deadLetters \cup {work[d].msg}
       /\ UNCHANGED queue

\* the queue gains a message only when a timer of the catch block fires: the
\* same payload with retryCount + 1, the original being acknowledged
RepublishOnly ==
  queue' \ queue # {}
    => \E d \in Deliveries :
         /\ work[d].pc = "backoff" /\ work'[d] = NoWork
         /\ queue' = queue \cup {[work[d].msg EXCEPT !.retryCount = @ + 1]}

ReservationStands(p) ==
  LET b == proc[p].bookingId
  IN /\ b \in DOMAIN bookings
     /\ bookings[b].status = "pending"
     /\ events[bookings[b].event_id].available_tickets
          = events[bookings[b].event_id].total_tickets
              - BookedTickets(bookings[b].event_id)

\* C15 (enqueue failure does not undo a reservation): a Reserve call that is
\* answered Created has its pending booking and the decremented
\* available_tickets committed, whether or not the booking-notification and
\* the payment-processing message were accepted by the queues.
EnqueueFailureKeepsReservation ==
  \A p \in Procs :
    (proc[p].op = "Reserve" /\ proc[p].result = "Created")
      => ReservationStands(p)

\* a call has returned Created although its payment-processing message was
\* not published, and its reservation stands
CreatedWithoutPaymentMessage ==
  \E p \in Procs :
    /\ proc[p].op = "Reserve" /\ proc[p].pc = "done"
    /\ proc[p].result = "Created"
    /\ <<"payment_processing", "payment", proc[p].bookingId>> \notin published
    /\ ReservationStands(p)

\* booking b is pending
Pending(b) == b \in DOMAIN bookings /\ bookings[b].status = "pending"

\* booking b has left pending, and if it expired its tickets went back to
\* available_tickets
Reclaimed(b) ==
  /\ b \in DOMAIN bookings
  /\ \/ bookings[b].status \in {"confirmed", "cancelled"}
     \/ bookings[b].status = "expired" /\ returned[b] = 1

\* C16 (abandoned reservations are reclaimed): with cleanup-expired called
\* again and again and time advancing, every booking eventually leaves
\* pending; a booking whose payment message is never processed eventually
\* becomes expired with its ticket_count returned to available_tickets.
AbandonedReclaimed ==
  \A b \in BookingIds : Pending(b) ~> Reclaimed(b)

\* the Cancel call in slot p, made by the booking's owner, reads its booking
CancelDecides(p) ==
  /\ proc[p].op = "Cancel" /\ proc[p].pc = "selectBooking"
  /\ proc'[p] # proc[p]
  /\ proc[p].bookingId \in DOMAIN bookings
  /\ bookings[proc[p].bookingId].user_id = proc[p].userId

\* the event of booking b starts in less than 24 hours
StartsWithin24Hours(b) ==
  events[bookings[b].event_id].event_date - now
    < CancelCutoffHours * MinutesPerHour

\* what the 24-hour rule asks of a step of the Cancel call in slot p
CancelRule(p) ==
  LET b == proc[p].bookingId
  IN /\ CancelDecides(p) /\ bookings[b].status = "confirmed"
          /\ StartsWithin24Hours(b)
        => /\ proc'[p].pc = "done"
           /\ proc'[p].result \in {"TooLate", "Internal"}
           /\ bookings' = bookings /\ events' = events
           /\ payments' = payments
     /\ CancelDecides(p)
          /\ \/ bookings[b].status = "pending"
             \/ bookings[b].status = "confirmed" /\ ~StartsWithin24Hours(b)
        => \/ proc'[p].pc = "returnTickets"
           \/ proc'[p].pc = "done" /\ proc'[p].result = "Internal"
     /\ proc[p].op = "Cancel" /\ proc[p].pc = "returnTickets"
          /\ proc'[p] # proc[p]
        => /\ proc'[p].pc = "done"
           /\ \/ proc'[p].result = "Internal"
              \/ /\ proc'[p].result = "Cancelled"
                 /\ bookings'[b].status = "cancelled"

\* C17 (24-hour rule): a Cancel of a confirmed booking whose event starts in
\* less than 24 hours is rejected and changes nothing, whether it comes from
\* a user or from the payment service; a Cancel of a confirmed booking at 24
\* hours or more, or of a pending booking at any time, goes on to cancel the
\* booking unless the database fails.
TwentyFourHourRule ==
  [][\A p \in Procs : CancelRule(p)]_vars

\* the payment service's compensating cancel was rejected as too late
WorkerCancelTooLate ==
  /\ proc[WorkerSlot].op = "Cancel" /\ proc[WorkerSlot].result = "TooLate"
  /\ \E d \in Deliveries : work[d].pc = "await" /\ ~work[d].success

\* the Cancel call in slot p succeeds in this step
CancelSucceeds(p) ==
  /\ proc[p].op = "Cancel" /\ proc[p].pc # "done"
  /\ proc'[p].pc = "done" /\ proc'[p].result = "Cancelled"

\* the refund of a successful Cancel is the total_amount of a booking whose
\* payment_status is completed, which is the case exactly for a confirmed
\* booking, and 0 otherwise
RefundByPaymentStatus(p) ==
  LET booking == bookings[proc[p].bookingId]
  IN CancelSucceeds(p) =>
       /\ booking.payment_status = "completed"
            => proc'[p].refundAmount = booking.total_amount
       /\ booking.payment_status # "completed" => proc'[p].refundAmount = 0
       /\ booking.payment_status = "completed" <=> booking.status = "confirmed"

\* C18 as stated (refund computation): a successful Cancel returns
\* total_amount when payment_status is completed and 0 otherwise, and the
\* refund is non-zero exactly when the cancelled booking had been confirmed.
RefundNonZeroIffConfirmed ==
  [][\A p \in Procs :
       /\ RefundByPaymentStatus(p)
       /\ CancelSucceeds(p) =>
            (proc'[p].refundAmount # 0
               <=> bookings[proc[p].bookingId].status = "confirmed")]_vars

\* C18 as amended: a successful Cancel returns total_amount when
\* payment_status is completed and 0 otherwise, and the refund is non-zero
\* exactly when the cancelled booking had been confirmed and its total_amount
\* is not 0.
RefundComputation ==
  [][\A p \in Procs :
       /\ RefundByPaymentStatus(p)
       /\ CancelSucceeds(p) =>
            (proc'[p].refundAmount # 0
               <=> /\ bookings[proc[p].bookingId].status = "confirmed"
                   /\ bookings[proc[p].bookingId].total_amount # 0)]_vars

\* a confirmed booking was cancelled with its total_amount as the refund
ConfirmedCancelledWithRefund ==
  \E p \in Procs :
    /\ proc[p].op = "Cancel" /\ proc[p].result = "Cancelled"
    /\ bookings[proc[p].bookingId].status = "cancelled"
    /\ bookings[proc[p].bookingId].payment_status = "completed"
    /\ proc[p].refundAmount = bookings[proc[p].bookingId].total_amount
    /\ proc[p].refundAmount # 0

\* a Cancel call in slot p by a user who does not own the booking is answered
\* NotFound, or Internal on a database error, and nothing is written
ForeignCancelRejected(p) ==
  LET b == proc[p].bookingId
  IN /\ proc[p].op = "Cancel" /\ proc[p].pc = "selectBooking"
     /\ proc'[p] # proc[p]
     /\ b \in DOMAIN bookings /\ bookings[b].user_id # proc[p].userId
     => /\ proc'[p].pc = "done"
        /\ proc'[p].result \in {"NotFound", "Internal"}
        /\ bookings' = bookings /\ events' = events

\* a Cancel call in slot p that returns tickets is made by the owner, finds
\* the booking not yet cancelled, holds its row lock and leaves it cancelled
CancelReturnsUnderLock(p) ==
  LET b == proc[p].bookingId
  IN /\ proc[p].op = "Cancel" /\ proc[p].pc # "done"
     /\ proc'[p].pc = "done" /\ proc'[p].result = "Cancelled"
     => /\ bookings[b].user_id = proc[p].userId
        /\ bookings[b].status # "cancelled"
        /\ bkLock[b] = p
        /\ bookings'[b].status = "cancelled"
        /\ returned'[b] = returned[b] + 1
        /\ \A q \in Procs \ {p} :
             ~(proc[q].op = "Cancel" /\ proc[q].bookingId = b
                 /\ proc[q].pc = "returnTickets")

\* only a Cancel call that succeeds in this step writes for a Cancel
CancelWritesOnSuccess ==
  \A p \in Procs :
    /\ proc[p].op = "Cancel" /\ proc'[p] # proc[p]
    /\ ~(proc[p].pc # "done" /\ proc'[p].pc = "done"
           /\ proc'[p].result = "Cancelled")
    => bookings' = bookings /\ events' = events /\ returned' = returned

\* a cancelled booking stays cancelled
CancelledForGood ==
  \A b \in DOMAIN bookings :
    bookings[b].status = "cancelled" => bookings'[b].status = "cancelled"

\* C19 (Cancel checks ownership): a Cancel by a user who does not own the
\* booking fails with NotFound and leaves the booking and available_tickets
\* unchanged; the checks and the change happen under the booking's row lock,
\* so that of two concurrent Cancels of one booking only one returns tickets.
CancelOwnership ==
  [][/\ \A p \in Procs : ForeignCancelRejected(p) /\ CancelReturnsUnderLock(p)
     /\ CancelWritesOnSuccess
     /\ CancelledForGood]_vars

\* two Cancel calls of the owner for one pending booking ran concurrently: one
\* cancelled it, the other found it cancelled
ConcurrentCancelsOneReturn ==
  \E p \in Procs, q \in Procs :
    /\ proc[p].op = "Cancel" /\ proc[p].result = "Cancelled"
    /\ proc[q].op = "Cancel" /\ proc[q].result = "AlreadyCancelled"
    /\ proc[p].bookingId = proc[q].bookingId
    /\ returned[proc[p].bookingId] = 1

\* the Reserve call in slot p commits its booking in this step: the counter
\* goes down by its ticket_count
ReserveTakes(p) ==
  /\ proc[p].op = "Reserve" /\ proc'[p] # proc[p]
  /\ Len(bookings') = Len(bookings) + 1
  => LET booking == bookings'[Len(bookings')]
     IN events'[booking.event_id].available_tickets
          = events[booking.event_id].available_tickets - booking.ticket_count

\* the Confirm call in slot p succeeds in this step: the counter stays
ConfirmKeeps(p) ==
  /\ proc[p].op = "Confirm" /\ proc[p].pc # "done"
  /\ proc'[p].pc = "done" /\ proc'[p].result = "Confirmed"
  => events' = events

\* the Cancel call in slot p succeeds in this step: the counter goes up by the
\* booking's ticket_count, and these tickets had not been returned before
CancelGivesBack(p) ==
  LET b == proc[p].bookingId
      e == bookings[b].event_id
  IN CancelSucceeds(p) =>
       /\ events'[e].available_tickets
            = events[e].available_tickets + bookings[b].ticket_count
       /\ returned[b] = 0

\* the Reserve call in slot p reads an event that has fewer tickets than it
\* asks for: Insufficient, or Internal on a database error, and no write
ExcessInsufficient(p) ==
  LET e == proc[p].eventId
  IN /\ proc[p].op = "Reserve" /\ proc[p].pc = "selectEvent"
     /\ proc'[p] # proc[p]
     /\ e \in EventIds /\ events[e].status = "active"
     /\ events[e].event_date > now
     /\ events[e].available_tickets < proc[p].ticketCount
     => /\ proc'[p].result \in {"Insufficient", "Internal"}
        /\ events' = events /\ bookings' = bookings

\* C20 (Reserve/Cancel round trip): a successful Reserve of n tickets takes n
\* from available_tickets, a successful Confirm leaves the counter, and a
\* successful Cancel of that booking gives back the n tickets that were taken,
\* so that available_tickets is K again; a Reserve in between that asks for
\* more than what is left is answered Insufficient and changes nothing.
RoundTrip ==
  [][\A p \in Procs :
       /\ ReserveTakes(p) /\ ConfirmKeeps(p) /\ CancelGivesBack(p)
       /\ ExcessInsufficient(p)]_vars

\* C21 (inventory bounds): in every reachable state and for every event,
\* 0 <= available_tickets <= total_tickets.
InventoryBounds ==
  \A e \in EventIds :
    /\ 0 <= events[e].available_tickets
    /\ events[e].available_tickets <= events[e].total_tickets

\* the statuses a booking ends in
Terminal == {"cancelled", "expired"}

\* C22 (no resurrection): a booking whose status is cancelled or expired is
\* never set back to pending or confirmed, and no booking row is ever deleted.
NoResurrection ==
  [][/\ DOMAIN bookings \subseteq DOMAIN bookings'
     /\ \A b \in DOMAIN bookings :
          bookings[b].status \in Terminal
            => bookings'[b].status \in Terminal]_vars

\* a Confirm call found its booking cancelled or expired and was rejected
ConfirmOfTerminalRejected ==
  \E p \in Procs :
    /\ proc[p].op = "Confirm" /\ proc[p].result = "NotPending"
    /\ proc[p].bookingId \in DOMAIN bookings
    /\ bookings[proc[p].bookingId].status \in Terminal

\* a later delivery of the payment message of booking b is being processed
Redelivered(b) ==
  \E d \in Deliveries :
    /\ work[d].msg # NoMessage
    /\ work[d].msg.bookingId = b
    /\ work[d].msg.retryCount > 0

\* C23 (duplicate delivery is safe): while a later delivery of the payment
\* message of a booking that an earlier delivery has confirmed or cancelled is
\* processed, the booking's status, available_tickets and the payment rows do
\* not change, whatever the gateway answers.
DuplicateDeliverySafe ==
  [][\A b \in DOMAIN bookings :
       Redelivered(b) /\ bookings[b].status \in {"confirmed", "cancelled"}
         => /\ bookings'[b].status = bookings[b].status
            /\ events' = events
            /\ payments' = payments]_vars

\* C24 (lock TTL prevents permanent blocking): a lock key does not keep the
\* token of a Reserve call for ever, even if that call never releases it, and
\* once the key is gone a Reserve call that asks for the lock can acquire it.
LockTTL ==
  /\ \A k \in RequestEventIds, p \in Procs :
       (redis[k] = p) ~> (redis[k] # p)
  /\ [](\A q \in Procs :
          /\ proc[q].op = "Reserve" /\ proc[q].pc = "acquire"
          /\ redis[lockKey(proc[q].eventId)] = NoToken
          => ENABLED AcquireLockOk(q))

\* a Reserve call holds the lock of an event while the call that held it
\* before is still inside its transaction
StalledHolderOvertaken ==
  \E p \in Procs, q \in Procs :
    /\ p # q
    /\ proc[p].op = "Reserve" /\ proc[p].pc \in {"selectEvent", "insert"}
    /\ proc[p].lockValue = p
    /\ proc[q].op = "Reserve" /\ proc[q].pc \in {"selectEvent", "insert"}
    /\ proc[q].eventId = proc[p].eventId
    /\ redis[lockKey(proc[q].eventId)] = q

\* the Reserve call in slot p reads an active future event that has the
\* tickets it asks for
ReserveReadsStock(p) ==
  /\ proc[p].op = "Reserve" /\ proc[p].pc = "selectEvent"
  /\ proc'[p] # proc[p]
  /\ proc[p].eventId \in EventIds
  /\ events[proc[p].eventId].status = "active"
  /\ events[proc[p].eventId].event_date > now
  /\ events[proc[p].eventId].available_tickets >= proc[p].ticketCount

\* the Reserve call in slot p has passed the checks on the event and its user
\* has no pending or confirmed booking for the event
ReserveMayInsert(p) ==
  /\ proc[p].op = "Reserve" /\ proc[p].pc = "insert"
  /\ proc'[p] # proc[p]
  /\ \A i \in DOMAIN bookings :
       ~(/\ bookings[i].user_id = proc[p].userId
         /\ bookings[i].event_id = proc[p].eventId
         /\ bookings[i].status \in {"pending", "confirmed"})

\* the step creates exactly one booking as asked by the call in slot p and
\* takes its tickets from the event
ReserveCreates(p) ==
  LET e == proc[p].eventId
      n == proc[p].ticketCount
  IN /\ proc'[p].result = "Created"
     /\ proc'[p].bookingId = Len(bookings) + 1
     /\ bookings' = Append(bookings,
          [user_id |-> proc[p].userId, event_id |-> e, ticket_count |-> n,
           total_amount |-> events[e].price * n, status |-> "pending",
           payment_status |-> "pending",
           expires_at |-> now + ReservationMinutes])
     /\ events' = [events EXCEPT ![e].available_tickets = @ - n]

\* C25 (Reserve postcondition): a Reserve of n tickets, 1 <= n <= 10, that
\* holds the lock and finds an active future event with at least n tickets
\* and no active booking of its user succeeds unless the database fails, and
\* in one step creates exactly one booking with status pending, payment_status
\* pending, ticket_count n, total_amount = price x n and expires_at = creation
\* time + 15 minutes and decreases the event's available_tickets by n.
ReservePostcondition ==
  [][\A p \in Procs :
       /\ ReserveReadsStock(p)
            => \/ proc'[p].pc = "insert" /\ proc'[p].ticketCount \in 1..MaxTicketCount
               \/ proc'[p].result = "Internal"
       /\ ReserveMayInsert(p)
            => \/ ReserveCreates(p)
               \/ /\ proc'[p].result = "Internal"
                  /\ bookings' = bookings /\ events' = events]_vars

\* a Reserve of two tickets succeeded and took the last two tickets
ReservedTwo ==
  \E p \in Procs :
    /\ proc[p].op = "Reserve" /\ proc[p].result = "Created"
    /\ proc[p].bookingId \in DOMAIN bookings
    /\ bookings[proc[p].bookingId].ticket_count = 2
    /\ bookings[proc[p].bookingId].total_amount
         = 2 * events[bookings[proc[p].bookingId].event_id].price
    /\ events[bookings[proc[p].bookingId].event_id].available_tickets
         = InitTickets - 2

\* the bookings that this step sets to expired
NewlyExpired ==
  {b \in DOMAIN bookings :
     bookings[b].status # "expired" /\ bookings'[b].status = "expired"}

\* C26 (the sweep expires exactly what it restores): in every run of
\* cleanup-expired the bookings that the run sets to expired are the bookings
\* it selected under row locks and whose ticket_count it added back, and the
\* count it returns is their number.
SweepExpiresWhatItRestores ==
  [][\A p \in Procs :
       /\ proc[p].op = "Sweep" /\ proc[p].pc = "markExpired"
       /\ proc'[p].pc = "done" /\ proc'[p].result = "Swept"
       => /\ NewlyExpired = {r.id : r \in proc[p].expiredBookings}
          /\ proc'[p].count = Cardinality(NewlyExpired)]_vars

\* C27 (the row lock is the safety net): whatever the distributed lock does
\* (its key expires while the holder's transaction is open and another
\* Reserve acquires it), at most one Reserve transaction at a time is past
\* the locking read of an event, so that there is no oversell, no second
\* active booking of a user for an event, and conservation holds.
RowLockSafetyNet ==
  /\ \A p \in Procs, q \in Procs :
       /\ p # q
       /\ proc[p].op = "Reserve" /\ proc[p].pc = "insert"
       /\ proc[q].op = "Reserve" /\ proc[q].pc = "insert"
       => proc[p].eventId # proc[q].eventId
  /\ \A e \in EventIds :
       /\ events[e].available_tickets >= 0
       /\ events[e].available_tickets + HeldTickets(e) = events[e].total_tickets
  /\ \A u \in Users, e \in EventIds : Cardinality(ActiveBookings(u, e)) <= 1

\* a Reserve call that acquired the key after it expired waits at its locking
\* read while the call that lost the key is still inside its transaction
SecondReserveBehindRowLock ==
  \E p \in Procs, q \in Procs :
    /\ p # q
    /\ proc[p].op = "Reserve" /\ proc[p].pc = "insert"
    /\ evLock[proc[p].eventId] = p
    /\ proc[q].op = "Reserve" /\ proc[q].pc = "selectEvent"
    /\ proc[q].eventId = proc[p].eventId
    /\ redis[lockKey(proc[q].eventId)] = q

\* C28 (every inventory mutator preserves the invariant): with the endpoints
\* of booking-service-v2, under concurrent Reserve calls and repeated or
\* concurrent Cancel calls, available_tickets is never negative and
\* available_tickets plus the tickets of pending and confirmed bookings
\* equals total_tickets.
V2Conservation ==
  \A e \in EventIds :
    /\ events[e].available_tickets >= 0
    /\ events[e].available_tickets + HeldTickets(e) = events[e].total_tickets

\* C29 (event update does not lose inventory changes): with event updates
\* running next to Reserve calls, available_tickets plus the tickets of
\* pending and confirmed bookings equals total_tickets, and total_tickets is
\* never below the number of tickets held.
UpdateKeepsInventory ==
  \A e \in EventIds :
    /\ events[e].available_tickets + HeldTickets(e) = events[e].total_tickets
    /\ HeldTickets(e) <= events[e].total_tickets

\* the payment service on a network that loses nothing: every axios.post
\* reaches the booking service and every response arrives, while a client
\* confirms and cancels and the sweep runs
NextRace ==
  \/ \E d \in Deliveries :
       \/ Deliver(d)
       \/ processPaymentGateway(d)
       \/ CallBookingService(d)
       \/ Responds(d)
       \/ Republish(d)
  \/ ServeWorker(WorkerSlot)
  \/ CancelStep(UserSlot)
  \/ ConfirmStep(UserSlot)
  \/ SweepStep(UserSlot)
  \/ TxError(UserSlot)
  \/ ChannelClosed
  \/ Tick

SpecRace == InitWorker /\ [][NextRace]_vars

\* the response that arrives at delivery d is the answer of confirm-payment
\* to a booking that is no longer pending
ConfirmLostRace(d) ==
  /\ work[d].pc = "await" /\ work[d].success
  /\ proc[WorkerSlot].pc = "done"
  /\ proc[WorkerSlot].op = "Confirm"
  /\ proc[WorkerSlot].bookingId = work[d].msg.bookingId
  /\ proc[WorkerSlot].result = "NotPending"
  /\ work'[d] # work[d]
  /\ proc' = proc

\* C30 (lost confirm/expire race): when the confirm call of the worker finds
\* the booking no longer pending, the worker treats the message as done: it
\* acknowledges the message at the end of the try block, without setting the
\* retry timer, without dropping the message after the retries, and without
\* putting it back into the queue for another gateway call.
LostRaceIsDone ==
  [][\A d \in Deliveries :
       ConfirmLostRace(d)
         => /\ Acknowledged(d)
            /\ work'[d].pc # "backoff"
            /\ queue' = queue]_vars

\* the step is a call of processPaymentGateway for the message of delivery d
GatewayInvoked(d) ==
  /\ work[d].pc = "gateway"
  /\ work'[d].pc = "call"

\* C31 (at most one charge per booking): where only the payment service calls
\* the booking service, a confirmed booking is one for which the gateway has
\* returned success; the worker never invokes the gateway for the message of
\* such a booking again.
OneChargePerBooking ==
  [][\A d \in Deliveries :
       GatewayInvoked(d)
         => bookings[work[d].msg.bookingId].status # "confirmed"]_vars

\* the payment service alone, stopping and starting again at any point
NextCrash ==
  \/ NextRedelivery
  \/ WorkerCrash

SpecCrash == InitWorker /\ [][NextCrash]_vars

\* the payment message of booking b waits in the queue or is delivered and
\* not yet acknowledged
Unfinished(b) ==
  \E m \in Messages : m # NoMessage /\ m.bookingId = b

\* the processing of the payment message of booking b has ended: at the end
\* of the try block, or by the drop after the last retry
Finished(b) ==
  \/ \E r \in results : r[1] = b
  \/ \E m \in deadLetters : m.bookingId = b

\* C32 (acknowledge after rescheduling): the step that acknowledges a message
\* on the retry path has put the copy with retryCount + 1 into
\* payment_processing; and at every moment, the worker stopping at any point
\* included, the message of a booking whose processing has not ended is in
\* the queue or delivered and unacknowledged.
AckAfterReschedule ==
  /\ [][\A d \in Deliveries :
          (work[d].pc = "backoff" /\ work'[d] = NoWork /\ ~WorkerCrash)
            => [work[d].msg EXCEPT !.retryCount = @ + 1] \in queue']_vars
  /\ [](\A b \in DOMAIN bookings : Finished(b) \/ Unfinished(b))

\* the original message is acknowledged on the retry path and its copy waits
\* in the queue
RepublishedAndAcknowledged ==
  /\ \A d \in Deliveries : work[d].pc = "idle"
  /\ \E m \in queue : m.retryCount > 0
  /\ results = {} /\ deadLetters = {}

\* the deliveries the broker makes without waiting for an acknowledgement:
\* the channel sets no prefetch, so their number has no limit in the code
MaxUnacked == 2
Unacked == 1..MaxUnacked

\* two pending bookings with their payment messages in the queue
InitPrefetch ==
  /\ now = TickMinutes
  /\ events = [e \in EventIds |->
        [total_tickets |-> 2, available_tickets |-> 0, price |-> 50,
         status |-> "active", event_date |-> 1450]]
  /\ bookings = <<[NewBooking(1, 1, 1, 50) EXCEPT !.expires_at = ReservationMinutes],
                  NewBooking(2, 1, 1, 50)>>
  /\ payments = <<>>
  /\ redis = [k \in RequestEventIds |-> NoToken]
  /\ evLock = [e \in EventIds |-> NoProc]
  /\ bkLock = [b \in BookingIds |-> NoProc]
  /\ proc = [p \in Procs |-> Idle]
  /\ mqUp \in BOOLEAN
  /\ published = {<<"booking_notifications", "booking_created", 1>>,
                  <<"payment_processing", "payment", 1>>,
                  <<"booking_notifications", "booking_created", 2>>,
                  <<"payment_processing", "payment", 2>>}
  /\ returned = [b \in BookingIds |-> 0]
  /\ queue = {PaymentMessage(1, 1), PaymentMessage(2, 2)}
  /\ work = [d \in Unacked |-> NoWork]
  /\ results = {}
  /\ deadLetters = {}

\* the consumer of payment_processing: amqplib calls processPayment for every
\* message that the broker delivers
NextPrefetch ==
  \/ \E d \in Unacked :
       \/ Deliver(d)
       \/ processPaymentGateway(d)
       \/ CallBookingService(d)
       \/ CallFails(d)
       \/ ResponseLost(d)
       \/ Responds(d)
       \/ Republish(d)
  \/ ServeWorker(WorkerSlot)
  \/ ChannelClosed

SpecPrefetch == InitPrefetch /\ [][NextPrefetch]_vars

\* C33 (one message at a time): the worker never has two payment-processing
\* messages delivered and unacknowledged at once; processPayment does not
\* start for the next message before the previous one is acknowledged.
OneMessageAtATime ==
  \A d \in Unacked, x \in Unacked :
    (work[d].pc # "idle" /\ work[x].pc # "idle") => d = x

\* C34 (Reserve step order): in a successful Reserve the step that enqueues
\* the booking-notification and the payment-processing message comes after
\* the release of the event lock: at that step the lock key no longer holds
\* the token of the call.
ReleaseBeforeEnqueue ==
  [][\A p \in Procs :
       /\ proc[p].op = "Reserve" /\ proc[p].pc = "insert"
       /\ proc'[p].result = "Created"
       /\ published' # published
       => redis[lockKey(proc[p].eventId)] # proc[p].lockValue]_vars

\* the step is a step of the cleanup-expired call in slot p
SweepActs(p) ==
  /\ proc[p].op = "Sweep" /\ proc[p].pc # "done"
  /\ proc'[p] # proc[p]

\* C35 (expiry only when due): a booking becomes expired only in the commit
\* of cleanup-expired, and only if it is pending with expires_at earlier than
\* now at that moment; a sweep that selects nothing answers count 0 and
\* changes no booking, no event and sends no notification; no step of a sweep
\* changes a booking that is confirmed, cancelled, or pending and not yet due.
ExpiryOnlyWhenDue ==
  [][/\ \A b \in DOMAIN bookings :
          (bookings[b].status # "expired" /\ bookings'[b].status = "expired")
            => /\ \E p \in Procs : SweepActs(p) /\ proc[p].pc = "markExpired"
               /\ bookings[b].status = "pending"
               /\ bookings[b].expires_at < now
     /\ \A p \in Procs :
          (SweepActs(p) /\ proc'[p].result = "NoneExpired")
            => /\ proc'[p].count = 0
               /\ UNCHANGED <<bookings, events, published>>
     /\ \A p \in Procs, b \in DOMAIN bookings :
          /\ SweepActs(p)
          /\ \/ bookings[b].status # "pending"
             \/ bookings[b].expires_at >= now
          => bookings'[b] = bookings[b]]_vars

\* a sweep has answered count 1 and the booking that was due is expired
ExpiredWhenDue ==
  \E p \in Procs, b \in DOMAIN bookings :
    /\ proc[p].op = "Sweep" /\ proc[p].result = "Swept" /\ proc[p].count = 1
    /\ bookings[b].status = "expired"
    /\ bookings[b].expires_at < now

\* booking b is paid: payment_status completed and a payment row with status
\* completed for the booking's total_amount
Paid(b) ==
  /\ bookings[b].payment_status = "completed"
  /\ \E i \in DOMAIN payments :
       /\ payments[i].booking_id = b
       /\ payments[i].status = "completed"
       /\ payments[i].amount = bookings[b].total_amount

\* C36 (confirmed implies paid): every confirmed booking is paid, a booking
\* that is paid stays paid whatever happens to it afterwards, and a booking
\* becomes confirmed only from pending, in the commit of a confirm-payment
\* call that holds the booking's row lock.
ConfirmedImpliesPaid ==
  /\ [](\A b \in DOMAIN bookings :
          bookings[b].status = "confirmed" => Paid(b))
  /\ [][\A b \in DOMAIN bookings :
          /\ Paid(b) => Paid(b)'
          /\ (bookings[b].status # "confirmed"
                /\ bookings'[b].status = "confirmed")
               => /\ bookings[b].status = "pending"
                  /\ \E p \in Procs :
                       /\ proc[p].op = "Confirm" /\ proc[p].pc = "confirm"
                       /\ proc[p].bookingId = b
                       /\ bkLock[b] = p
                       /\ proc'[p].result = "Confirmed"]_vars

\* a booking that was confirmed and then cancelled is still paid
CancelledStillPaid ==
  \E b \in DOMAIN bookings : bookings[b].status = "cancelled" /\ Paid(b)

\* the payment service with its manual endpoint, next to the worker
NextManual ==
  \/ NextRedelivery
  \/ ProcessPaymentManual

SpecManual == InitWorker /\ [][NextManual]_vars

\* the payment rows with status completed of booking b
CompletedPayments(b) ==
  {i \in DOMAIN payments :
     payments[i].booking_id = b /\ payments[i].status = "completed"}

\* C37 (payment rows follow reconciliation): each booking has at most one
\* payment row with status completed, and only a booking that Confirm moved
\* to confirmed (which set its payment_status to completed) has one.
PaymentsFollowReconciliation ==
  \A b \in DOMAIN bookings :
    /\ Cardinality(CompletedPayments(b)) <= 1
    /\ CompletedPayments(b) # {} => bookings[b].payment_status = "completed"

\* the fields of booking b that are fixed at its creation are the same after
\* the step
FixedFieldsKept(b) ==
  /\ bookings'[b].user_id = bookings[b].user_id
  /\ bookings'[b].event_id = bookings[b].event_id
  /\ bookings'[b].ticket_count = bookings[b].ticket_count
  /\ bookings'[b].total_amount = bookings[b].total_amount
  /\ bookings'[b].expires_at = bookings[b].expires_at

\* C38 (immutable booking fields): no step changes the user, event,
\* ticket_count, total_amount or expires_at of an existing booking; a step of
\* Cancel or of the sweep leaves payment_status as it was, and payment_status
\* changes only in the commit of Confirm, together with status.
ImmutableBookingFields ==
  [][\A b \in DOMAIN bookings :
       /\ FixedFieldsKept(b)
       /\ \A p \in Procs :
            (proc[p].op \in {"Cancel", "Sweep"} /\ proc'[p] # proc[p])
              => bookings'[b].payment_status = bookings[b].payment_status
       /\ bookings'[b].payment_status # bookings[b].payment_status
            => /\ bookings'[b].status = "confirmed"
               /\ \E p \in Procs :
                    proc[p].op = "Confirm" /\ proc[p].pc = "confirm"]_vars

\* the booking of the start has been expired by the sweep and has kept all
\* its other fields
ExpiredKeepsFields ==
  /\ now > 0
  /\ bookings[1] = [NewBooking(1, 1, 1, 50) EXCEPT
                      !.status = "expired", !.expires_at = ReservationMinutes]

\* a cleanup-expired call that selected booking b has sent its messages and
\* has yet to commit
SweepHolds(b) ==
  \E p \in Procs :
    /\ proc[p].op = "Sweep" /\ proc[p].pc = "markExpired"
    /\ \E r \in proc[p].expiredBookings : r.id = b

\* C39 (notifications match committed state): a booking_cancelled message is
\* there only for a booking whose cancellation is committed, a
\* payment_confirmed message only for a booking whose confirmation is
\* committed, and a booking_expired message for a booking that is still
\* pending only while the sweep that sent it has yet to commit: a sweep that
\* rolls back leaves none.
NotificationsMatchCommitted ==
  \A b \in DOMAIN bookings :
    /\ <<"booking_notifications", "booking_cancelled", b>> \in published
         => bookings[b].status = "cancelled"
    /\ <<"booking_confirmations", "payment_confirmed", b>> \in published
         => bookings[b].payment_status = "completed"
    /\ <<"booking_notifications", "booking_expired", b>> \in published
         => bookings[b].status # "pending" \/ SweepHolds(b)

\* the next statement of the transaction in slot p needs a row lock that the
\* transaction in slot q holds
WaitsFor(p, q) ==
  \/ /\ proc[p].pc = "selectEvent"
     /\ proc[p].eventId \in EventIds
     /\ evLock[proc[p].eventId] = q
  \/ /\ proc[p].pc = "selectBooking"
     /\ proc[p].bookingId \in DOMAIN bookings
     /\ bkLock[proc[p].bookingId] = q
  \/ /\ proc[p].pc = "returnTickets"
     /\ evLock[proc[p].booking.event_id] = q
  \/ /\ proc[p].pc = "selectExpired"
     /\ \E i \in PendingExpired : bkLock[i] = q
  \/ /\ proc[p].pc = "restore"
     /\ \E r \in proc[p].expiredBookings : evLock[r.event_id] = q
  \/ /\ proc[p].pc = "markExpired"
     /\ \E i \in PendingExpired : bkLock[i] = q

\* C40 (no deadlock between transactions): no two transactions wait for a
\* row lock of each other.
NoCyclicWait ==
  \A p \in Procs, q \in Procs :
    p # q => ~(WaitsFor(p, q) /\ WaitsFor(q, p))

====
